---- MODULE Spec2Model ----
(***************************************************************************)
(* Model of nncf/common/pruning/model_analysis.py: NodesCluster,           *)
(* Clusterization, merge_clusters_for_nodes and cluster_special_ops.       *)
(*                                                                         *)
(* A node is represented by the value of its id attribute.  A Python dict  *)
(* is a function whose DOMAIN is the set of keys; a Python list is a       *)
(* sequence.  A method that can raise is an operator returning a record    *)
(* [err, clusters, node_to_cluster, ret]: err is "none" or the name of the *)
(* exception, clusters / node_to_cluster are the two dicts as the call     *)
(* leaves them (also when it raises half way), ret is <<>> for None or     *)
(* <<value>>.                                                              *)
(***************************************************************************)
EXTENDS Integers, Sequences, FiniteSets, TLC

\* ---- bounds of the model ------------------------------------------------
MaxClusterId == 2      \* cluster ids 1..MaxClusterId in the Clusterization API runs
MaxNodeId == 2         \* node ids 1..MaxNodeId in the Clusterization API runs
MaxImportance == 1     \* importances 0..MaxImportance of the clusters that are added
MaxClusterLen == 1     \* length of the node list of a cluster that is added
MaxListLen == 2        \* length of the id list given to merge_list_of_clusters

ClusterIds == 1..MaxClusterId
NodeIds == 1..MaxNodeId

VARIABLES
  clusters,          \* Clusterization.clusters: cluster id -> NodesCluster
  node_to_cluster,   \* Clusterization._node_to_cluster: node id -> cluster id
  last,              \* the call that produced this state: [op, args, err]
  graph,             \* the NNCFGraph cluster_special_ops works on, with its type lists
  pc,                \* position in cluster_special_ops ("api" in the Clusterization runs)
  seed_i,            \* number of special nodes seeded so far (loop of line 201)
  walk_i,            \* number of nodes of the topological order visited so far (line 205)
  can_prune,         \* ModelAnalyzer.can_prune: node id -> bool
  accept_pruned_input, \* ModelAnalyzer.accept_pruned_input: node id -> bool
  pass_i,            \* number of nodes the running propagation pass has visited
  calls,             \* number of calls of analyse_model_before_pruning that returned
  ip_graph,          \* the InsertionPointGraph (self): nodes, edges and _input_ips
  merged_ip_graph,   \* what get_ip_graph_with_merged_hw_optimized_operations returned last
  node_keys_working_set, \* the list InsertionPointGraph.__init__ iterates over (line 150)
  op_i,              \* number of operators of the working set processed so far
  nodes_cluster,     \* a NodesCluster object: [id, nodes, importance]
  enabled,           \* BaseQuantizer.enabled[0] of each quantizer of a QuantizersSwitcher
  originally_disabled, \* QuantizersSwitcher.originally_disabled
  originally_enabled,  \* QuantizersSwitcher.originally_enabled
  enabled_before,    \* the flags `enabled` as they were before the last call of the switcher
  switcher_calls,    \* number of calls made on the QuantizersSwitcher
  transformations,   \* PTModelTransformer._transformations: the list of commands
  inserted           \* the calls of insert_at_point made so far: [point, fn_list]

\* the state of a ModelAnalyzer
analyzer_vars == <<can_prune, accept_pruned_input, pass_i, calls>>

\* the state of a Clusterization and of the loops of cluster_special_ops
clustering_vars == <<clusters, node_to_cluster, seed_i, walk_i>>

\* the state of an InsertionPointGraph and of its construction
ip_vars == <<ip_graph, merged_ip_graph, node_keys_working_set, op_i>>

\* the state of a QuantizersSwitcher and of its quantizers
switcher_vars == <<enabled, originally_disabled, originally_enabled, enabled_before,
                   switcher_calls>>

\* the state of a PTModelTransformer and of the calls it made on its model
transformer_vars == <<transformations, inserted>>

\* the objects the runs of the three components above never touch
unit_vars == <<nodes_cluster, switcher_vars, transformer_vars>>

vars == <<clusters, node_to_cluster, last, graph, pc, seed_i, walk_i,
          can_prune, accept_pruned_input, pass_i, calls,
          ip_graph, merged_ip_graph, node_keys_working_set, op_i,
          nodes_cluster, enabled, originally_disabled, originally_enabled, enabled_before,
          switcher_calls, transformations, inserted>>

\* ---- helpers ------------------------------------------------------------
Range(s) == {s[i] : i \in 1..Len(s)}

Max2(a, b) == IF a > b THEN a ELSE b

\* Python max() of a non-empty list
MaxOf(s) == CHOOSE m \in Range(s) : \A x \in Range(s) : x <= m

\* injective sequences (lists without repetition) over S of length 0..n
DistinctSeqs(S, n) ==
  UNION {{s \in [1..k -> S] : \A i, j \in 1..k : i # j => s[i] # s[j]} : k \in 0..n}

\* all lists over S of length 0..n
SeqsUpTo(S, n) == UNION {[1..k -> S] : k \in 0..n}

Result(err, cl, idx, ret) ==
  [err |-> err, clusters |-> cl, node_to_cluster |-> idx, ret |-> ret]

\* ---- NodesCluster -------------------------------------------------------
NodesCluster(cluster_id, nodes, nodes_orders) ==
  [id |-> cluster_id, nodes |-> nodes, importance |-> MaxOf(nodes_orders)]

\* clean_cluster: self.nodes = [], self.importance = 0
clean_cluster(cluster) == [cluster EXCEPT !.nodes = <<>>, !.importance = 0]

\* the importance is replaced by the incoming one
add_nodes_set_importance(cluster, nodes, importance) ==
  [cluster EXCEPT !.nodes = @ \o nodes, !.importance = importance]

add_nodes(cluster, nodes, importance) ==
  [cluster EXCEPT !.nodes = @ \o nodes, !.importance = Max2(@, importance)]

\* ---- Clusterization -----------------------------------------------------
\* for node in nodes: self._node_to_cluster[node.id] = cluster_id
SetIndex(idx, nodes, cluster_id) ==
  [k \in (DOMAIN idx) \cup Range(nodes) |->
     IF k \in Range(nodes) THEN cluster_id ELSE idx[k]]

\* dict.pop(key) of a key that is present
DictPop(d, key) == [k \in (DOMAIN d) \ {key} |-> d[k]]

get_cluster_by_id(cl, idx, cluster_id) ==
  IF cluster_id \notin DOMAIN cl
    THEN Result("IndexError", cl, idx, <<>>)
    ELSE Result("none", cl, idx, <<cl[cluster_id]>>)

get_cluster_by_node_id(cl, idx, node_id) ==
  IF node_id \notin DOMAIN idx
    THEN Result("IndexError", cl, idx, <<>>)
    ELSE get_cluster_by_id(cl, idx, idx[node_id])

is_node_in_clusterization(cl, idx, node_id) == node_id \in DOMAIN idx

add_cluster(cl, idx, cluster) ==
  IF cluster.id \in DOMAIN cl
    THEN Result("IndexError", cl, idx, <<>>)
    ELSE Result("none",
                [k \in (DOMAIN cl) \cup {cluster.id} |->
                   IF k = cluster.id THEN cluster ELSE cl[k]],
                SetIndex(idx, cluster.nodes, cluster.id),
                <<>>)

\* the loop of delete_cluster: pop the nodes one by one; pop of a missing key
\* raises KeyError and leaves the entries popped so far removed
RECURSIVE PopNodes(_, _)
PopNodes(idx, nodes) ==
  IF nodes = <<>> THEN [err |-> "none", idx |-> idx]
  ELSE IF Head(nodes) \notin DOMAIN idx THEN [err |-> "KeyError", idx |-> idx]
  ELSE PopNodes(DictPop(idx, Head(nodes)), Tail(nodes))

delete_cluster_keep_index(cl, idx, cluster_id) ==
  IF cluster_id \notin DOMAIN cl
    THEN Result("IndexError", cl, idx, <<>>)
    ELSE Result("none", DictPop(cl, cluster_id), idx, <<>>)

delete_cluster(cl, idx, cluster_id) ==
  IF cluster_id \notin DOMAIN cl
    THEN Result("IndexError", cl, idx, <<>>)
    ELSE LET p == PopNodes(idx, cl[cluster_id].nodes) IN
         IF p.err # "none"
           THEN Result(p.err, cl, p.idx, <<>>)
           ELSE Result("none", DictPop(cl, cluster_id), p.idx, <<>>)

get_all_clusters(cl) == {cl[k] : k \in DOMAIN cl}

\* get_all_nodes: the node lists of the registered clusters, concatenated
RECURSIVE ConcatNodes(_, _)
ConcatNodes(cl, ids) ==
  IF ids = {} THEN <<>>
  ELSE LET k == CHOOSE x \in ids : \A y \in ids : x <= y
       IN cl[k].nodes \o ConcatNodes(cl, ids \ {k})

get_all_nodes(cl) == ConcatNodes(cl, DOMAIN cl)

\* merge_clusters; cluster_1 and cluster_2 are the same object when
\* first_id = second_id, and then add_nodes extends the list by itself
merge_clusters_keep_second(cl, idx, first_id, second_id) ==
  IF first_id \notin DOMAIN cl \/ second_id \notin DOMAIN cl
    THEN Result("IndexError", cl, idx, <<>>)
    ELSE LET cluster_1 == cl[first_id]
             cluster_2 == cl[second_id]
         IN Result("none",
                   [k \in (DOMAIN cl) \ {first_id} |->
                      IF k = second_id
                        THEN add_nodes(cluster_2, cluster_1.nodes, cluster_1.importance)
                        ELSE cl[k]],
                   SetIndex(idx, cluster_1.nodes, second_id),
                   <<>>)

merge_clusters(cl, idx, first_id, second_id) ==
  IF first_id \notin DOMAIN cl \/ second_id \notin DOMAIN cl
    THEN Result("IndexError", cl, idx, <<>>)
    ELSE LET cluster_1 == cl[first_id]
             cluster_2 == cl[second_id]
         IN IF cluster_1.importance > cluster_2.importance
              THEN Result("none",
                     [k \in (DOMAIN cl) \ {second_id} |->
                        IF k = first_id
                          THEN add_nodes(cluster_1, cluster_2.nodes, cluster_2.importance)
                          ELSE cl[k]],
                     SetIndex(idx, cluster_2.nodes, first_id),
                     <<>>)
              ELSE Result("none",
                     [k \in (DOMAIN cl) \ {first_id} |->
                        IF k = second_id
                          THEN add_nodes(cluster_2, cluster_1.nodes, cluster_1.importance)
                          ELSE cl[k]],
                     SetIndex(idx, cluster_1.nodes, second_id),
                     <<>>)

\* list(set(clusters)) sorted by importance: every arrangement of the distinct
\* ids that is ascending in importance (the order of a Python set, and so the
\* order among equal keys of the stable sort, is not fixed by the code)
SortedOrders(cl, ids) ==
  LET S == Range(ids) IN
  {s \in [1..Cardinality(S) -> S] :
     /\ \A i, j \in 1..Cardinality(S) : i # j => s[i] # s[j]
     /\ \A i, j \in 1..Cardinality(S) :
          i < j => cl[s[i]].importance <= cl[s[j]].importance}

\* for cluster_id in clusters[:-1]: self.merge_clusters(clusters[-1], cluster_id)
RECURSIVE MergeInto(_, _, _, _)
MergeInto(cl, idx, last_id, rest) ==
  IF rest = <<>> THEN Result("none", cl, idx, <<>>)
  ELSE LET r == merge_clusters(cl, idx, last_id, Head(rest)) IN
       IF r.err # "none" THEN r
       ELSE MergeInto(r.clusters, r.node_to_cluster, last_id, Tail(rest))

\* order: the sorted list, one of SortedOrders(cl, ids) when every id is registered
merge_list_of_clusters(cl, idx, ids, order) ==
  IF \E i \in Range(ids) : i \notin DOMAIN cl
    THEN Result("IndexError", cl, idx, <<>>)
  ELSE IF order = <<>> THEN Result("none", cl, idx, <<>>)
  ELSE MergeInto(cl, idx, order[Len(order)], SubSeq(order, 1, Len(order) - 1))

EmptyDict == [k \in {} |-> 0]

\* no ModelAnalyzer has been constructed
NoAnalyzer ==
  /\ can_prune = EmptyDict
  /\ accept_pruned_input = EmptyDict
  /\ pass_i = 0
  /\ calls = 0

\* nx.DiGraph(): no node, no edge; _input_ips = []
EmptyDiGraph == [nodes |-> EmptyDict, edges |-> EmptyDict, input_ips |-> <<>>]

\* no InsertionPointGraph has been constructed
NoIPGraph ==
  /\ ip_graph = EmptyDiGraph
  /\ merged_ip_graph = EmptyDiGraph
  /\ node_keys_working_set = <<>>
  /\ op_i = 0

\* no NodesCluster has been constructed
NoCluster == nodes_cluster = [id |-> 0, nodes |-> <<>>, importance |-> 0]

\* no QuantizersSwitcher has been constructed
NoSwitcher ==
  /\ enabled = EmptyDict
  /\ originally_disabled = <<>>
  /\ originally_enabled = <<>>
  /\ enabled_before = EmptyDict
  /\ switcher_calls = 0

\* no PTModelTransformer has been constructed
NoTransformer ==
  /\ transformations = <<>>
  /\ inserted = <<>>

NoUnits == NoCluster /\ NoSwitcher /\ NoTransformer

NoGraph ==
  [nodes |-> {}, type |-> EmptyDict, edges |-> {}, topo |-> <<>>,
   special_types |-> {}, identity_types |-> {}]

\* ---- the Clusterization API as a state machine --------------------------

\* order: the sorted id list of merge_list_of_clusters; imps: the importances
\* of the clusters of that list before the call (<<>> for every other call)
Call(op, args, r) ==
  [op |-> op, args |-> args, err |-> r.err, order |-> <<>>, imps |-> <<>>]

Apply(op, args, r) ==
  /\ clusters' = r.clusters
  /\ node_to_cluster' = r.node_to_cluster
  /\ last' = Call(op, args, r)
  /\ UNCHANGED <<graph, pc, seed_i, walk_i, analyzer_vars, ip_vars, unit_vars>>

ClusteredNodes(cl) == UNION {Range(cl[k].nodes) : k \in DOMAIN cl}

\* the clusters a caller builds hold distinct nodes that are not clustered yet,
\* as in the seeding loop of cluster_special_ops
FreshNodeLists ==
  DistinctSeqs(NodeIds \ ((DOMAIN node_to_cluster) \cup ClusteredNodes(clusters)),
               MaxClusterLen) \ {<<>>}

Init ==
  /\ clusters = EmptyDict
  /\ node_to_cluster = EmptyDict
  /\ last = [op |-> "__init__", args |-> <<>>, err |-> "none", order |-> <<>>,
             imps |-> <<>>]
  /\ graph = NoGraph
  /\ pc = "api"
  /\ seed_i = 0
  /\ walk_i = 0
  /\ NoAnalyzer
  /\ NoIPGraph
  /\ NoUnits

AddCluster ==
  \E id \in ClusterIds, nodes \in FreshNodeLists, imp \in 0..MaxImportance :
    LET cluster == NodesCluster(id, nodes, <<imp>>) IN
    Apply("add_cluster", <<id>>,
          add_cluster(clusters, node_to_cluster, cluster))

DeleteCluster ==
  \E id \in ClusterIds :
    Apply("delete_cluster", <<id>>,
          delete_cluster(clusters, node_to_cluster, id))

MergeClusters ==
  \E a, b \in ClusterIds :
    Apply("merge_clusters", <<a, b>>,
          merge_clusters(clusters, node_to_cluster, a, b))

MergeListOfClusters ==
  \E ids \in SeqsUpTo(ClusterIds, MaxListLen) :
    IF Range(ids) \subseteq DOMAIN clusters
      THEN \E order \in SortedOrders(clusters, ids) :
             LET r == merge_list_of_clusters(clusters, node_to_cluster, ids, order) IN
             /\ clusters' = r.clusters
             /\ node_to_cluster' = r.node_to_cluster
             /\ last' = [Call("merge_list_of_clusters", ids, r) EXCEPT
                           !.order = order,
                           !.imps = [i \in 1..Len(order) |-> clusters[order[i]].importance]]
             /\ UNCHANGED <<graph, pc, seed_i, walk_i, analyzer_vars, ip_vars, unit_vars>>
      ELSE Apply("merge_list_of_clusters", ids,
                 merge_list_of_clusters(clusters, node_to_cluster, ids, <<>>))

GetClusterById ==
  \E id \in ClusterIds :
    Apply("get_cluster_by_id", <<id>>,
          get_cluster_by_id(clusters, node_to_cluster, id))

GetClusterByNodeId ==
  \E n \in NodeIds :
    Apply("get_cluster_by_node_id", <<n>>,
          get_cluster_by_node_id(clusters, node_to_cluster, n))

Next ==
  \/ AddCluster
  \/ DeleteCluster
  \/ MergeClusters
  \/ MergeListOfClusters
  \/ GetClusterById
  \/ GetClusterByNodeId

Spec == Init /\ [][Next]_vars

\* ---- claims about Clusterization (checked under Spec) -------------------
NoDuplicates(seq) == Len(seq) = Cardinality(Range(seq))

Registered(cl, ids) == Range(ids) \subseteq DOMAIN cl

\* the index entry of node n is the same before and after the step
SameIndexEntry(n) ==
  /\ (n \in DOMAIN node_to_cluster) <=> (n \in DOMAIN node_to_cluster')
  /\ n \in DOMAIN node_to_cluster => node_to_cluster'[n] = node_to_cluster[n]

StateUnchanged == clusters' = clusters /\ node_to_cluster' = node_to_cluster

\* C1: after any sequence of add_cluster, delete_cluster, merge_clusters and
\* merge_list_of_clusters calls the index is consistent with the membership:
\* every node is a member of at most one registered cluster, get_all_nodes()
\* has no duplicates, the indexed node ids are exactly the ids of the nodes of
\* get_all_nodes(), and every index entry points to a registered cluster that
\* contains the node.
C1_IndexConsistent ==
  /\ \A n \in NodeIds :
       Cardinality({k \in DOMAIN clusters : n \in Range(clusters[k].nodes)}) <= 1
  /\ NoDuplicates(get_all_nodes(clusters))
  /\ DOMAIN node_to_cluster = Range(get_all_nodes(clusters))
  /\ \A n \in DOMAIN node_to_cluster :
       /\ node_to_cluster[n] \in DOMAIN clusters
       /\ n \in Range(clusters[node_to_cluster[n]].nodes)

\* C2: for any two registered ids a and b, after merge_clusters(a, b) exactly
\* one of {a, b} remains registered, its importance is the maximum of the two
\* importances before the call and its node set is the union of the two node
\* sets before the call.
C2_MergeResult ==
  [][(last'.op = "merge_clusters" /\ Registered(clusters, last'.args)) =>
       LET a == last'.args[1]
           b == last'.args[2]
       IN /\ Cardinality({a, b} \cap DOMAIN clusters') = 1
          /\ \A s \in {a, b} \cap DOMAIN clusters' :
               /\ clusters'[s].importance =
                    Max2(clusters[a].importance, clusters[b].importance)
               /\ Range(clusters'[s].nodes) =
                    Range(clusters[a].nodes) \cup Range(clusters[b].nodes)]_vars

\* C3: merge_clusters(a, b) keeps a and unregisters b exactly when
\* importance(a) > importance(b), otherwise it keeps b and unregisters a; the
\* index entry of every node of the absorbed cluster points to the survivor
\* afterwards, and no other cluster or index entry changes.
C3_MergeSurvivor ==
  [][(last'.op = "merge_clusters" /\ Registered(clusters, last'.args)) =>
       LET a == last'.args[1]
           b == last'.args[2]
           keep_a == clusters[a].importance > clusters[b].importance
           survivor == IF keep_a THEN a ELSE b
           absorbed == IF keep_a THEN b ELSE a
           moved == Range(clusters[absorbed].nodes)
       IN /\ survivor \in DOMAIN clusters'
          /\ absorbed \notin DOMAIN clusters'
          /\ \A n \in moved :
               n \in DOMAIN node_to_cluster' /\ node_to_cluster'[n] = survivor
          /\ \A k \in (DOMAIN clusters) \ {a, b} :
               k \in DOMAIN clusters' /\ clusters'[k] = clusters[k]
          /\ DOMAIN clusters' \subseteq DOMAIN clusters
          /\ \A n \in NodeIds \ moved : SameIndexEntry(n)]_vars

\* the listed clusters have pairwise distinct importances
DistinctImportances(cl, S) ==
  \A i, j \in S : i # j => cl[i].importance # cl[j].importance

C5_MergeListLastSurvives ==
  [][(/\ last'.op = "merge_list_of_clusters"
      /\ last'.args # <<>>
      /\ Registered(clusters, last'.args)) =>
       /\ last'.err = "none"
       /\ Range(last'.args) \cap DOMAIN clusters' = {last'.order[Len(last'.order)]}]_vars

\* C6: every operation that is given an invalid id fails and leaves the
\* registry and the index as they were: add_cluster with a registered id,
\* delete_cluster, get_cluster_by_id and merge_clusters with an unregistered
\* id, get_cluster_by_node_id with a node id that is in no cluster.
C6_InvalidIdFails ==
  [][LET invalid ==
           \/ last'.op = "add_cluster" /\ last'.args[1] \in DOMAIN clusters
           \/ /\ last'.op \in {"delete_cluster", "get_cluster_by_id"}
              /\ last'.args[1] \notin DOMAIN clusters
           \/ last'.op = "merge_clusters" /\ ~Registered(clusters, last'.args)
           \/ /\ last'.op = "get_cluster_by_node_id"
              /\ last'.args[1] \notin ClusteredNodes(clusters)
     IN invalid => (last'.err = "IndexError" /\ StateUnchanged)]_vars

\* C7: delete_cluster(id) of a registered id removes the cluster and the index
\* entry of each of its nodes in one step and leaves every other cluster and
\* index entry unchanged; afterwards get_cluster_by_id(id) and
\* get_cluster_by_node_id of every former member fail with NotFound.
C7_DeleteFrame ==
  [][(last'.op = "delete_cluster" /\ last'.args[1] \in DOMAIN clusters) =>
       LET id == last'.args[1]
           members == Range(clusters[id].nodes)
       IN /\ last'.err = "none"
          /\ DOMAIN clusters' = (DOMAIN clusters) \ {id}
          /\ \A k \in DOMAIN clusters' : clusters'[k] = clusters[k]
          /\ \A n \in members : n \notin DOMAIN node_to_cluster'
          /\ \A n \in NodeIds \ members : SameIndexEntry(n)
          /\ get_cluster_by_id(clusters', node_to_cluster', id).err = "IndexError"
          /\ \A n \in members :
               get_cluster_by_node_id(clusters', node_to_cluster', n).err = "IndexError"]_vars

\* C7 witness: a cluster has been deleted while another cluster, with its index
\* entries, is still registered
C7_Witness ==
  /\ last.op = "delete_cluster"
  /\ last.err = "none"
  /\ last.args[1] \notin DOMAIN clusters
  /\ \E k \in DOMAIN clusters : \E n \in DOMAIN node_to_cluster : node_to_cluster[n] = k

\* ---- NNCFGraph (nncf.common.graph and nncf.common.pruning.utils) --------
NumNodes == 3          \* nodes of the graphs given to cluster_special_ops

\* position of the value None of max_importance_node_id among the node ids
NoneNodeId == 0

GraphNodeIds == 1..NumNodes

NodeTypes == {"conv", "relu", "other"}

topological_sort(g) == g.topo

RECURSIVE SortedSeq(_)
SortedSeq(S) ==
  IF S = {} THEN <<>>
  ELSE LET m == CHOOSE x \in S : \A y \in S : x <= y IN <<m>> \o SortedSeq(S \ {m})

\* graph.get_all_nodes(): the nodes in the order of their ids
graph_get_all_nodes(g) == SortedSeq(g.nodes)

get_next_nodes(g, n) == {e[2] : e \in {d \in g.edges : d[1] = n}}

\* the nodes visited when the traversal goes on through the nodes of `types`
RECURSIVE TraverseThrough(_, _, _)
TraverseThrough(g, types, visited) ==
  LET more == visited \cup
              UNION {get_next_nodes(g, m) : m \in {v \in visited : g.type[v] \in types}}
  IN IF more = visited THEN visited ELSE TraverseThrough(g, types, more)

\* find_next_nodes_not_of_types: the first nodes whose type is not in `types`
\* on every path that leaves `node`
find_next_nodes_not_of_types(g, node, types) ==
  LET start == IF g.type[node] \notin types THEN get_next_nodes(g, node) ELSE {node}
  IN {m \in TraverseThrough(g, types, start) : g.type[m] \notin types}

\* the lists that hold exactly the elements of S, each once
Orderings(S) ==
  {s \in [1..Cardinality(S) -> S] : \A i, j \in 1..Cardinality(S) : i # j => s[i] # s[j]}

\* ---- get_position / merge_clusters_for_nodes / cluster_special_ops ------
\* every node is given the position 0
get_position_zero(nodes_list, idx) == 0

\* index (from 0) of the first node of nodes_list with that id
get_position(nodes_list, idx) ==
  (CHOOSE i \in 1..Len(nodes_list) :
     /\ nodes_list[i] = idx
     /\ \A j \in 1..(i - 1) : nodes_list[j] # idx) - 1

\* first loop of merge_clusters_for_nodes (lines 171-177)
RECURSIVE FindMaxImportance(_, _, _, _, _)
FindMaxImportance(cl, idx, nodes, max_importance_node_id, max_importance) ==
  IF nodes = <<>> THEN [err |-> "none", node_id |-> max_importance_node_id]
  ELSE LET r == get_cluster_by_node_id(cl, idx, Head(nodes)) IN
       IF r.err # "none" THEN [err |-> r.err, node_id |-> max_importance_node_id]
       ELSE IF r.ret[1].importance > max_importance
              THEN FindMaxImportance(cl, idx, Tail(nodes), Head(nodes), r.ret[1].importance)
              ELSE FindMaxImportance(cl, idx, Tail(nodes), max_importance_node_id,
                                     max_importance)

\* second loop of merge_clusters_for_nodes (lines 180-183)
RECURSIVE MergeOthers(_, _, _, _, _)
MergeOthers(cl, idx, nodes, max_importance_node_id, max_importance_cluster_id) ==
  IF nodes = <<>> THEN Result("none", cl, idx, <<>>)
  ELSE IF Head(nodes) = max_importance_node_id
    THEN MergeOthers(cl, idx, Tail(nodes), max_importance_node_id,
                     max_importance_cluster_id)
  ELSE LET c == get_cluster_by_node_id(cl, idx, Head(nodes)) IN
       IF c.err # "none" THEN c
       ELSE LET m == merge_clusters(cl, idx, max_importance_cluster_id, c.ret[1].id) IN
            IF m.err # "none" THEN m
            ELSE MergeOthers(m.clusters, m.node_to_cluster, Tail(nodes),
                             max_importance_node_id, max_importance_cluster_id)

merge_clusters_for_nodes(cl, idx, nodes_to_merge) ==
  IF Len(nodes_to_merge) <= 1 THEN Result("none", cl, idx, <<>>)
  ELSE LET f == FindMaxImportance(cl, idx, nodes_to_merge, NoneNodeId, 0) IN
       IF f.err # "none" THEN Result(f.err, cl, idx, <<>>)
       ELSE LET c == get_cluster_by_node_id(cl, idx, f.node_id) IN
            IF c.err # "none" THEN c
            ELSE MergeOthers(cl, idx, nodes_to_merge, f.node_id, c.ret[1].id)

\* all_special_nodes (lines 196-197)
all_special_nodes(g) ==
  SelectSeq(graph_get_all_nodes(g), LAMBDA n : g.type[n] \in g.special_types)

\* the lists all_output_special_nodes can be for `node` (lines 209-213): the
\* special nodes among the outputs, in the order the traversal returns them,
\* then the node itself when it is special
MergeLists(g, node) ==
  LET all_outputs == find_next_nodes_not_of_types(g, node, g.identity_types)
      specials == {m \in all_outputs : g.type[m] \in g.special_types}
  IN {IF g.type[node] \in g.special_types THEN Append(o, node) ELSE o :
        o \in Orderings(specials)}

\* if node.node_type in identity_types: continue (lines 206-207)
SkipsNode_never(g, node) == FALSE

SkipsNode(g, node) == g.type[node] \in g.identity_types

\* ---- cluster_special_ops as a state machine -----------------------------
\* the graphs: every DAG on NumNodes nodes whose topological order is the
\* order of the ids or its reverse, with every typing of the nodes
TopoOrders ==
  {[i \in 1..NumNodes |-> i], [i \in 1..NumNodes |-> NumNodes + 1 - i]}

ForwardEdges(order) ==
  {<<order[p[1]], order[p[2]]>> :
     p \in {q \in (1..Len(order)) \X (1..Len(order)) : q[1] < q[2]}}

SpecialChoices == {{"conv"}, {"conv", "relu"}}

\* A(special) -> Identity -> B(special) -> C(other) -> D(special)
ChainGraph ==
  [nodes |-> 1..5,
   type |-> <<"conv", "relu", "conv", "other", "conv">>,
   edges |-> {<<1, 2>>, <<2, 3>>, <<3, 4>>, <<4, 5>>},
   topo |-> <<1, 2, 3, 4, 5>>,
   special_types |-> {"conv"},
   identity_types |-> {"relu"}]

\* X(other) -> A, C and Y(other) -> A, B, C with A, B, C special: the visit
\* of Y finds A and C already in one cluster
SharedOutputsGraph ==
  [nodes |-> 1..5,
   type |-> <<"other", "other", "conv", "conv", "conv">>,
   edges |-> {<<1, 3>>, <<1, 5>>, <<2, 3>>, <<2, 4>>, <<2, 5>>},
   topo |-> <<1, 2, 3, 4, 5>>,
   special_types |-> {"conv"},
   identity_types |-> {"relu"}]

Graphs ==
  {ChainGraph, SharedOutputsGraph} \cup
  UNION {{[nodes |-> GraphNodeIds, type |-> ty, edges |-> ed, topo |-> order,
            special_types |-> sp, identity_types |-> {"relu"}] :
             ty \in [GraphNodeIds -> NodeTypes],
             ed \in SUBSET ForwardEdges(order), sp \in SpecialChoices} :
         order \in TopoOrders}

InitCSO ==
  /\ graph \in Graphs
  /\ clusters = EmptyDict
  /\ node_to_cluster = EmptyDict
  /\ last = [op |-> "Clusterization", args |-> <<>>, err |-> "none", order |-> <<>>,
             imps |-> <<>>]
  /\ pc = "seed"
  /\ seed_i = 0
  /\ walk_i = 0
  /\ NoAnalyzer
  /\ NoIPGraph
  /\ NoUnits

Step(op, args, r, next_pc) ==
  /\ clusters' = r.clusters
  /\ node_to_cluster' = r.node_to_cluster
  /\ last' = Call(op, args, r)
  /\ pc' = IF r.err # "none" THEN "raised" ELSE next_pc
  /\ UNCHANGED <<graph, analyzer_vars, ip_vars, unit_vars>>

\* one iteration of the loop of lines 201-203
SeedCluster ==
  /\ pc = "seed"
  /\ seed_i < Len(all_special_nodes(graph))
  /\ LET node == all_special_nodes(graph)[seed_i + 1]
         cluster == NodesCluster(seed_i, <<node>>,
                                 <<get_position(topological_sort(graph), node)>>)
     IN Step("add_cluster", <<seed_i, node>>,
             add_cluster(clusters, node_to_cluster, cluster), "seed")
  /\ seed_i' = seed_i + 1
  /\ UNCHANGED walk_i

SeedDone ==
  /\ pc = "seed"
  /\ seed_i = Len(all_special_nodes(graph))
  /\ pc' = "walk"
  /\ UNCHANGED <<clusters, node_to_cluster, last, graph, seed_i, walk_i, analyzer_vars, ip_vars, unit_vars>>

\* one iteration of the loop of lines 205-214
WalkNode ==
  /\ pc = "walk"
  /\ walk_i < Len(topological_sort(graph))
  /\ LET node == topological_sort(graph)[walk_i + 1] IN
       IF SkipsNode(graph, node)
         THEN /\ last' = [op |-> "continue", args |-> <<node>>, err |-> "none",
                           order |-> <<>>, imps |-> <<>>]
              /\ UNCHANGED <<clusters, node_to_cluster, graph, pc, analyzer_vars, ip_vars, unit_vars>>
         ELSE \E nodes_to_merge \in MergeLists(graph, node) :
                Step("merge_clusters_for_nodes", nodes_to_merge,
                     merge_clusters_for_nodes(clusters, node_to_cluster, nodes_to_merge),
                     "walk")
  /\ walk_i' = walk_i + 1
  /\ UNCHANGED seed_i

\* return clusterization (line 216)
Return ==
  /\ pc = "walk"
  /\ walk_i = Len(topological_sort(graph))
  /\ pc' = "done"
  /\ last' = [op |-> "return", args |-> <<>>, err |-> "none", order |-> <<>>,
              imps |-> <<>>]
  /\ UNCHANGED <<clusters, node_to_cluster, graph, seed_i, walk_i, analyzer_vars, ip_vars, unit_vars>>

NextCSO ==
  \/ SeedCluster
  \/ SeedDone
  \/ WalkNode
  \/ Return

SpecCSO == InitCSO /\ [][NextCSO]_vars

\* ---- claims about cluster_special_ops (checked under SpecCSO) -----------
Specials(g) == {n \in g.nodes : g.type[n] \in g.special_types}

IsIdentity(g, n) == g.type[n] \in g.identity_types

\* there is a path a -> ... -> b whose intermediate nodes are all identity-type
\* (the graph is acyclic, so the recursion ends)
RECURSIVE IdentityPath(_, _, _)
IdentityPath(g, a, b) ==
  \/ <<a, b>> \in g.edges
  \/ \E e \in g.edges :
       e[1] = a /\ IsIdentity(g, e[2]) /\ IdentityPath(g, e[2], b)

\* a and b are both next non-identity successors of one non-identity node
CommonSource(g, a, b) ==
  \E c \in g.nodes :
    /\ ~IsIdentity(g, c)
    /\ ~IsIdentity(g, a) /\ IdentityPath(g, c, a)
    /\ ~IsIdentity(g, b) /\ IdentityPath(g, c, b)

Related(g, a, b) ==
  IdentityPath(g, a, b) \/ IdentityPath(g, b, a) \/ CommonSource(g, a, b)

\* the special nodes linked to the nodes of S by a chain of the two relations
RECURSIVE LinkedTo(_, _)
LinkedTo(g, S) ==
  LET more == S \cup {b \in Specials(g) : \E a \in S : Related(g, a, b)}
  IN IF more = S THEN S ELSE LinkedTo(g, more)

SameCluster(a, b) ==
  \E k \in DOMAIN clusters : {a, b} \subseteq Range(clusters[k].nodes)

\* C8: the returned Clusterization partitions the special-type nodes: every
\* special node is in exactly one registered cluster and get_cluster_by_node_id
\* finds it, no cluster is empty, no node appears twice and no non-special node
\* is in a cluster.
C8_Partition ==
  pc = "done" =>
    /\ \A n \in Specials(graph) :
         /\ Cardinality({k \in DOMAIN clusters : n \in Range(clusters[k].nodes)}) = 1
         /\ LET r == get_cluster_by_node_id(clusters, node_to_cluster, n)
            IN r.err = "none" /\ n \in Range(r.ret[1].nodes)
    /\ \A k \in DOMAIN clusters : clusters[k].nodes # <<>>
    /\ NoDuplicates(get_all_nodes(clusters))
    /\ Range(get_all_nodes(clusters)) \subseteq Specials(graph)

\* C9: in the result, two special nodes are in the same cluster whenever one is
\* reached from the other by a path whose intermediate nodes are all
\* identity-type, or both are next non-identity successors of one common
\* non-identity node.
C9_RelatedShareCluster ==
  pc = "done" =>
    \A a, b \in Specials(graph) :
      (a # b /\ (IdentityPath(graph, a, b) \/ CommonSource(graph, a, b)))
        => SameCluster(a, b)

\* C10: two special nodes end in the same cluster only if a chain of the two
\* relations links them; for the chain A(special) -> Identity -> B(special) ->
\* C(other) -> D(special), A and B share a cluster and D is alone in its own.
C10_OnlyRelatedShareCluster ==
  pc = "done" =>
    /\ \A a, b \in Specials(graph) :
         (a # b /\ SameCluster(a, b)) => b \in LinkedTo(graph, {a})
    /\ graph = ChainGraph =>
         /\ SameCluster(1, 3)
         /\ \E k \in DOMAIN clusters : clusters[k].nodes = <<5>>
         /\ Cardinality({k \in DOMAIN clusters : 5 \in Range(clusters[k].nodes)}) = 1

\* C10 witness: cluster_special_ops has returned for the chain, with A and B in
\* one cluster and D in another
C10_Witness ==
  /\ pc = "done"
  /\ graph = ChainGraph
  /\ SameCluster(1, 3)
  /\ ~SameCluster(3, 5)
  /\ \E k \in DOMAIN clusters : 5 \in Range(clusters[k].nodes)

\* ---- claims about merge_clusters_for_nodes (checked under SpecCSO) ------
\* importance of the cluster that holds node n before the call
ImportanceOf(n) == clusters[node_to_cluster[n]].importance

\* the node of `nodes` whose cluster has the highest importance, the first
\* one in the order of the list when several clusters share it
Designated(nodes) ==
  nodes[CHOOSE i \in 1..Len(nodes) :
          /\ \A j \in 1..Len(nodes) : ImportanceOf(nodes[j]) <= ImportanceOf(nodes[i])
          /\ \A j \in 1..(i - 1) : ImportanceOf(nodes[j]) < ImportanceOf(nodes[i])]

\* every node of `nodes` is, after the call, a member of the registered
\* cluster k and indexed under k
AllInCluster(nodes, k) ==
  /\ k \in DOMAIN clusters'
  /\ \A i \in 1..Len(nodes) :
       /\ nodes[i] \in Range(clusters'[k].nodes)
       /\ nodes[i] \in DOMAIN node_to_cluster'
       /\ node_to_cluster'[nodes[i]] = k

\* C11: merge_clusters_for_nodes changes nothing for zero or one node; for
\* two or more nodes it merges the cluster of every other node into the
\* cluster of the node with the highest importance (the first one on ties),
\* so that afterwards all the given nodes are in that one cluster.
C11_MergeForNodes ==
  [][last'.op = "merge_clusters_for_nodes" =>
       IF Len(last'.args) <= 1 THEN StateUnchanged
       ELSE /\ last'.err = "none"
            /\ AllInCluster(last'.args, node_to_cluster[Designated(last'.args)])]_vars

\* ---- ModelAnalyzer (model_analysis.py, lines 219-320) -------------------
MaxAnalyzedNodes == 2  \* nodes of the graphs of every shape given to a ModelAnalyzer
MaxCalls == 2          \* calls of analyse_model_before_pruning on one analyzer

get_previous_nodes(g, n) == {e[1] : e \in {d \in g.edges : d[2] = n}}

\* self._convolution_op_metatype.get_all_op_aliases()
ConvolutionAliases == {"conv"}

\* self._concat_op_metatype.get_all_op_aliases()
ConcatAliases == {"concat"}

\* the type names the registry of pruning metatypes resolves to a class
RegisteredTypes == {"conv", "concat", "other"}

\* the type names of the nodes of an analysed graph
AnalyzerTypes == RegisteredTypes \cup {"unknown"}

node_propagate_can_prune_attr_all(g, n) == TRUE

node_propagate_can_prune_attr_not_conv(g, n) == g.type[n] \notin ConvolutionAliases

node_propagate_can_prune_attr(g, n) ==
  LET is_conv == g.type[n] \in ConvolutionAliases
  IN ~is_conv \/ (is_conv /\ g.depthwise[n])

node_accept_different_inputs_never(g, n) == FALSE

node_accept_different_inputs(g, n) == g.type[n] \in ConcatAliases

\* the class of a type name: the registered metatype, or the metatype
\* stop_propagation_ops when the registry returns None
get_class_by_type_name(type_name) ==
  IF type_name \in RegisteredTypes THEN type_name ELSE "stop_propagation_ops"

\* cls.accept_pruned_input(nncf_node): what the metatype answers for the node
class_accept_pruned_input(g, cls, n) ==
  IF cls = "stop_propagation_ops" THEN FALSE ELSE g.accepts[n]

\* set_accept_pruned_input_attr: the map after the loop over all the nodes
set_accept_pruned_input_attr(g, ap) ==
  [n \in DOMAIN ap |->
     IF n \in g.nodes
       THEN class_accept_pruned_input(g, get_class_by_type_name(g.type[n]), n)
       ELSE ap[n]]

Reversed_not(s) == s

\* reversed(list)
Reversed(s) == [i \in 1..Len(s) |-> s[Len(s) + 1 - i]]

up_node_accumulate(g, cp, ap, node) ==
  LET out_nodes == get_next_nodes(g, node)
  IN [cp EXCEPT ![node] =
        /\ cp[node]
        /\ \A o \in out_nodes : ap[o]
        /\ \A o \in {m \in out_nodes : node_propagate_can_prune_attr(g, m)} : cp[o]]

\* one iteration of the loop of propagate_can_prune_attr_up: can_prune after it
up_node(g, cp, ap, node) ==
  LET out_nodes == get_next_nodes(g, node)
      outputs_accept_pruned_input == \A o \in out_nodes : ap[o]
      outputs_will_be_pruned ==
        \A o \in {m \in out_nodes : node_propagate_can_prune_attr(g, m)} : cp[o]
  IN [cp EXCEPT ![node] = outputs_accept_pruned_input /\ outputs_will_be_pruned]

\* one iteration of the loop of propagate_can_prune_attr_down: can_prune after it
down_node(g, cp, node) ==
  IF node_propagate_can_prune_attr(g, node)
    THEN LET in_nodes == get_previous_nodes(g, node)
             can_prune_all == \A i \in in_nodes : cp[i]
             can_prune_any == \E i \in in_nodes : cp[i]
         IN IF \/ (~node_accept_different_inputs(g, node) /\ ~can_prune_all)
               \/ (node_accept_different_inputs(g, node) /\ ~can_prune_any)
              THEN [cp EXCEPT ![node] = can_prune_all]
              ELSE cp
    ELSE cp

\* ---- the graphs a ModelAnalyzer is given --------------------------------
\* the topological orders of a graph
ValidTopoSorts(nodes, edges) ==
  {s \in Orderings(nodes) :
     \A e \in edges : get_position(s, e[1]) < get_position(s, e[2])}

\* the graphs on `nodes` with the edges ed and node types among `types`:
\* every typing, every answer of the depthwise predicate on the convolutions
\* and of the metatypes' accept_pruned_input, every topological order
GraphsOn(nodes, ed, types) ==
  UNION {{[nodes |-> nodes, type |-> ty, edges |-> ed, topo |-> order,
            special_types |-> {}, identity_types |-> {},
            depthwise |-> dw, accepts |-> acc] :
             dw \in {d \in [nodes -> BOOLEAN] :
                       \A n \in nodes : d[n] => ty[n] \in ConvolutionAliases},
             acc \in {a \in [nodes -> BOOLEAN] :
                        \A n \in nodes : a[n] => ty[n] \in RegisteredTypes},
             order \in ValidTopoSorts(nodes, ed)} :
         ty \in [nodes -> types]}

\* 1 -> 2 -> ... -> n
ChainEdges(n) == {<<i, i + 1>> : i \in 1..(n - 1)}

\* two inputs of node 3, the first of which also feeds node 4
BranchEdges == {<<1, 3>>, <<2, 3>>, <<1, 4>>}

AnalyzerGraphs ==
  UNION {GraphsOn(1..MaxAnalyzedNodes, ed, AnalyzerTypes) :
           ed \in SUBSET ForwardEdges([i \in 1..MaxAnalyzedNodes |-> i])}
  \cup GraphsOn(1..3, ChainEdges(3), {"conv", "other"})
  \cup GraphsOn(1..4, ChainEdges(4), {"conv", "other"})
  \cup GraphsOn(1..4, BranchEdges, {"concat", "other"})

\* ---- ModelAnalyzer as a state machine -----------------------------------
\* ModelAnalyzer.__init__ (lines 247-248): both maps are True for every node
InitMA ==
  /\ graph \in AnalyzerGraphs
  /\ can_prune = [n \in graph.nodes |-> TRUE]
  /\ accept_pruned_input = [n \in graph.nodes |-> TRUE]
  /\ pass_i = 0
  /\ calls = 0
  /\ pc = "idle"
  /\ last = [op |-> "ModelAnalyzer", args |-> <<>>, err |-> "none", order |-> <<>>,
             imps |-> <<>>]
  /\ clusters = EmptyDict
  /\ node_to_cluster = EmptyDict
  /\ seed_i = 0
  /\ walk_i = 0
  /\ NoIPGraph
  /\ NoUnits

Visit(op, node) ==
  [op |-> op, args |-> <<node>>, err |-> "none", order |-> <<>>, imps |-> <<>>]

\* analyse_model_before_pruning is called: set_accept_pruned_input_attr (line 317)
Analyse ==
  /\ pc \in {"idle", "returned"}
  /\ calls < MaxCalls
  /\ accept_pruned_input' = set_accept_pruned_input_attr(graph, accept_pruned_input)
  /\ pc' = "up"
  /\ pass_i' = 0
  /\ last' = [op |-> "set_accept_pruned_input_attr", args |-> <<>>, err |-> "none",
              order |-> <<>>, imps |-> <<>>]
  /\ UNCHANGED <<can_prune, calls, graph, clustering_vars, ip_vars, unit_vars>>

\* one iteration of the loop of propagate_can_prune_attr_up (lines 282-292)
UpNode ==
  /\ pc = "up"
  /\ pass_i < Len(topological_sort(graph))
  /\ LET node == Reversed(topological_sort(graph))[pass_i + 1] IN
       /\ can_prune' = up_node(graph, can_prune, accept_pruned_input, node)
       /\ last' = Visit("propagate_can_prune_attr_up", node)
  /\ pass_i' = pass_i + 1
  /\ UNCHANGED <<accept_pruned_input, calls, graph, pc, clustering_vars, ip_vars, unit_vars>>

\* propagate_can_prune_attr_up returns, propagate_can_prune_attr_down starts
UpDone ==
  /\ pc = "up"
  /\ pass_i = Len(topological_sort(graph))
  /\ pc' = "down"
  /\ pass_i' = 0
  /\ UNCHANGED <<can_prune, accept_pruned_input, calls, graph, last, clustering_vars, ip_vars, unit_vars>>

\* one iteration of the loop of propagate_can_prune_attr_down (lines 300-309)
DownNode ==
  /\ pc = "down"
  /\ pass_i < Len(topological_sort(graph))
  /\ LET node == topological_sort(graph)[pass_i + 1] IN
       /\ can_prune' = down_node(graph, can_prune, node)
       /\ last' = Visit("propagate_can_prune_attr_down", node)
  /\ pass_i' = pass_i + 1
  /\ UNCHANGED <<accept_pruned_input, calls, graph, pc, clustering_vars, ip_vars, unit_vars>>

\* return self.can_prune (line 320)
ReturnCanPrune ==
  /\ pc = "down"
  /\ pass_i = Len(topological_sort(graph))
  /\ pc' = "returned"
  /\ calls' = calls + 1
  /\ last' = [op |-> "analyse_model_before_pruning", args |-> <<>>, err |-> "none",
              order |-> <<>>, imps |-> <<>>]
  /\ UNCHANGED <<can_prune, accept_pruned_input, pass_i, graph, clustering_vars, ip_vars, unit_vars>>

NextMA ==
  \/ Analyse
  \/ UpNode
  \/ UpDone
  \/ DownNode
  \/ ReturnCanPrune

SpecMA == InitMA /\ [][NextMA]_vars

\* ---- claims about ModelAnalyzer (checked under SpecMA) ------------------
\* a convolution that is not depthwise: the nodes that do not propagate can_prune
IsRegularConv(n) == graph.type[n] = "conv" /\ ~graph.depthwise[n]

Propagates(n) == ~IsRegularConv(n)

\* a node of a concatenation type: it accepts different inputs
IsConcat(n) == graph.type[n] = "concat"

\* C12: in the map analyse_model_before_pruning returns, a node that does not
\* accept pruned input is fed by no prunable node: for every edge (p, n),
\* accept_pruned_input[n] false implies can_prune[p] false.
C12_NoPrunedInputWhereRefused ==
  pc = "returned" =>
    \A e \in graph.edges : ~accept_pruned_input[e[2]] => ~can_prune[e[1]]

\* pass 1 has just finished: propagate_can_prune_attr_up returned
UpFinished == pc = "down" /\ pass_i = 0

\* C13: when propagate_can_prune_attr_up finishes, for every node n at once,
\* can_prune[n] is true exactly when every direct successor accepts pruned
\* input and every direct successor that propagates can_prune has can_prune
\* true; a node without successors has can_prune true.
C13_UpFixpoint ==
  UpFinished =>
    \A n \in graph.nodes :
      /\ can_prune[n] <=>
           /\ \A o \in get_next_nodes(graph, n) : accept_pruned_input[o]
           /\ \A o \in get_next_nodes(graph, n) :
                Propagates(o) => can_prune[o]
      /\ get_next_nodes(graph, n) = {} => can_prune[n]

\* pass 1 finished with a node all of whose successors accept pruned input
\* and that is not prunable because a propagating successor is not
C13_Witness ==
  /\ UpFinished
  /\ \E n \in graph.nodes :
       /\ ~can_prune[n]
       /\ \A o \in get_next_nodes(graph, n) : accept_pruned_input[o]
       /\ \E o \in get_next_nodes(graph, n) :
            Propagates(o) /\ ~can_prune[o]

\* the nodes the running pass 2 has visited before this iteration
VisitedDown == {topological_sort(graph)[i] : i \in 1..pass_i}

\* C14: propagate_can_prune_attr_down visits the nodes in topological order
\* and changes can_prune only for the visited node and only when it
\* propagates can_prune: a node that does not accept different inputs becomes
\* false when a direct predecessor has can_prune false, a concat node is
\* blocked only when none of its direct predecessors has can_prune true, and
\* in every other case, and for a non-propagating node, can_prune keeps its
\* value; neither pass modifies accept_pruned_input.
C14_DownPass ==
  [][/\ pc \in {"up", "down"} => accept_pruned_input' = accept_pruned_input
     /\ (pc = "down" /\ last'.op = "propagate_can_prune_attr_down") =>
          LET node == last'.args[1]
              in_nodes == get_previous_nodes(graph, node)
          IN /\ node \notin VisitedDown
             /\ in_nodes \subseteq VisitedDown
             /\ \A m \in graph.nodes \ {node} : can_prune'[m] = can_prune[m]
             /\ ~Propagates(node) =>
                  can_prune'[node] = can_prune[node]
             /\ (/\ Propagates(node)
                 /\ ~IsConcat(node)) =>
                  IF \E i \in in_nodes : ~can_prune[i]
                    THEN ~can_prune'[node]
                    ELSE can_prune'[node] = can_prune[node]
             /\ (/\ Propagates(node)
                 /\ IsConcat(node)) =>
                  /\ (\E i \in in_nodes : can_prune[i]) =>
                       can_prune'[node] = can_prune[node]
                  /\ (in_nodes # {} /\ \A i \in in_nodes : ~can_prune[i]) =>
                       ~can_prune'[node]
                  /\ (can_prune[node] /\ ~can_prune'[node]) =>
                       \A i \in in_nodes : ~can_prune[i]]_vars

\* pass 2 has visited a concat node with a prunable and an unprunable
\* predecessor and left it prunable
C14_Witness ==
  /\ last.op = "propagate_can_prune_attr_down"
  /\ IsConcat(last.args[1])
  /\ can_prune[last.args[1]]
  /\ \E i \in get_previous_nodes(graph, last.args[1]) : can_prune[i]
  /\ \E i \in get_previous_nodes(graph, last.args[1]) : ~can_prune[i]

\* C15: pass 2 leaves can_prune unchanged for every node without
\* predecessors, whatever its type and whatever value pass 1 gave it.
C15_NoPredecessorsUnchanged ==
  [][(/\ pc = "down"
      /\ last'.op = "propagate_can_prune_attr_down"
      /\ get_previous_nodes(graph, last'.args[1]) = {}) =>
       can_prune' = can_prune]_vars

\* the graph Input -> Conv -> Conv: node 1 is the input, nodes 2 and 3 are
\* regular convolutions and node 3 is the output of the network
InputConvConv ==
  /\ graph.nodes = 1..3
  /\ graph.edges = {<<1, 2>>, <<2, 3>>}
  /\ graph.type[1] = "other"
  /\ IsRegularConv(2)
  /\ IsRegularConv(3)

\* C16: for the graph Input -> Conv -> Conv whose second Conv is the output
\* of the network, analyse_model_before_pruning returns can_prune False for
\* the second Conv.
C16_LastConvNotPrunable ==
  (pc = "returned" /\ InputConvConv) => can_prune[3] = FALSE

\* C16 as amended: the second Conv, which has no successor, gets can_prune
\* True; it is the first Conv that gets can_prune False when the second Conv
\* does not accept pruned input.
C16_LastConvPrunable ==
  (pc = "returned" /\ InputConvConv) =>
    /\ can_prune[3] = TRUE
    /\ can_prune[2] = accept_pruned_input[3]

\* the analysis of Input -> Conv -> Conv returned and the output Conv does not
\* accept pruned input
C16_Witness ==
  /\ pc = "returned"
  /\ InputConvConv
  /\ ~accept_pruned_input[3]
  /\ can_prune[3]
  /\ ~can_prune[2]

\* the chain conv1 -> X -> conv2 -> rest: nodes 1 and 3 are regular
\* convolutions, node 2 (X) is a convolution whose only predecessor is node 1
\* and whose only successor is node 3
ConvChain ==
  /\ {1, 2, 3} \subseteq graph.nodes
  /\ get_previous_nodes(graph, 1) = {}
  /\ get_next_nodes(graph, 1) = {2}
  /\ get_previous_nodes(graph, 2) = {1}
  /\ get_next_nodes(graph, 2) = {3}
  /\ IsRegularConv(1)
  /\ graph.type[2] = "conv"
  /\ IsRegularConv(3)

\* C17: a node propagates can_prune unless it is a convolution that is not
\* depthwise.  In a chain conv1 -> X -> conv2 -> rest, when X is depthwise,
\* can_prune[conv1] is true only if X accepts pruned input and X ends with
\* can_prune true, which requires conv2 to accept pruned input; when X is a
\* regular convolution, can_prune[conv1] is accept_pruned_input[X], whatever
\* is downstream of X.
C17_PropagationThroughDepthwise ==
  /\ graph # NoGraph =>
       \A n \in graph.nodes :
         node_propagate_can_prune_attr(graph, n) <=> ~IsRegularConv(n)
  /\ (pc = "returned" /\ ConvChain) =>
       /\ graph.depthwise[2] =>
            /\ can_prune[1] => (accept_pruned_input[2] /\ can_prune[2])
            /\ can_prune[2] => accept_pruned_input[3]
       /\ IsRegularConv(2) => (can_prune[1] <=> accept_pruned_input[2])

\* the analysis of a chain conv1 -> depthwise -> conv2 -> rest returned with
\* conv1 prunable
C17_Witness ==
  /\ pc = "returned"
  /\ ConvChain
  /\ 4 \in graph.nodes
  /\ graph.depthwise[2]
  /\ can_prune[1]
  /\ can_prune[2]
  /\ ~accept_pruned_input[4]

\* propagate_can_prune_attr_up as a whole: the loop over the list `nodes`
RECURSIVE propagate_can_prune_attr_up(_, _, _, _)
propagate_can_prune_attr_up(g, cp, ap, nodes) ==
  IF nodes = <<>> THEN cp
  ELSE propagate_can_prune_attr_up(g, up_node(g, cp, ap, Head(nodes)), ap, Tail(nodes))

\* propagate_can_prune_attr_down as a whole: the loop over the list `nodes`
RECURSIVE propagate_can_prune_attr_down(_, _, _)
propagate_can_prune_attr_down(g, cp, nodes) ==
  IF nodes = <<>> THEN cp
  ELSE propagate_can_prune_attr_down(g, down_node(g, cp, Head(nodes)), Tail(nodes))

\* what analyse_model_before_pruning returns on a new analyzer of the graph g
\* when topological_sort supplies `order`
analyse_model_before_pruning(g, order) ==
  LET all_true == [n \in g.nodes |-> TRUE]
      ap == set_accept_pruned_input_attr(g, all_true)
      up == propagate_can_prune_attr_up(g, all_true, ap, Reversed(order))
  IN propagate_can_prune_attr_down(g, up, order)

\* C18: analyse_model_before_pruning is a function of the graph and the
\* predicates: whatever topological order the graph supplies, and also on a
\* second call on the same analyzer, it returns the map a new analyzer
\* returns for the same graph when the nodes are sorted by id.
C18_Deterministic ==
  pc = "returned" =>
    can_prune = analyse_model_before_pruning(graph, graph_get_all_nodes(graph))

\* a second call returned, on a graph whose topological order is not the
\* order of the ids, with prunable and unprunable nodes
C18_Witness ==
  /\ pc = "returned"
  /\ calls = 2
  /\ topological_sort(graph) # graph_get_all_nodes(graph)
  /\ \E n, m \in graph.nodes : can_prune[n] /\ ~can_prune[m]

\* ---- InsertionPointGraph (nncf_network.py, lines 105-338) ---------------
\* A networkx DiGraph is a record [nodes, edges, input_ips]: nodes maps a node
\* key to the dict of its attributes, edges maps a pair <<from, to>> to the
\* dict of the attributes of the edge; input_ips is the list _input_ips of an
\* InsertionPointGraph (<<>> for a plain DiGraph).  A node key, a string in
\* the code, is a record [kind, port, ops]: an operator key is
\* Key("OPERATOR", <<>>, <<id>>), and the keys of the hook nodes are built
\* from it as get_pre_hook_node_key / get_post_hook_node_key build them.
MaxOperators == 2      \* operators of the base graphs of every shape
MaxPortId == 1         \* input port ids 0..MaxPortId of the edges of a base graph

Key(kind, port, ops) == [kind |-> kind, port |-> port, ops |-> ops]

OperatorKey(id) == Key("OPERATOR", <<>>, <<id>>)

get_pre_hook_node_key_default_port(node_key, in_port_id) ==
  Key("PRE HOOK", <<0>>, node_key.ops)

\* PRE_HOOK_ID_PREFIX + str(in_port_id) + ' ' + node_key
get_pre_hook_node_key(node_key, in_port_id) ==
  Key("PRE HOOK", <<in_port_id>>, node_key.ops)

\* POST_HOOK_ID_PREFIX + node_key
get_post_hook_node_key(node_key) == Key("POST HOOK", <<>>, node_key.ops)

\* {IN_PORT_ID_ATTR_NAME: in_port_id}
PortAttrs(in_port_id) == [a \in {"in_port_id"} |-> in_port_id]

\* DiGraph.add_node(k, **attrs): a new node, or an update of the attributes
add_node(G, k, attrs) ==
  [G EXCEPT !.nodes = IF k \in DOMAIN G.nodes
                        THEN [G.nodes EXCEPT ![k] = attrs @@ G.nodes[k]]
                        ELSE (k :> attrs) @@ G.nodes]

\* DiGraph.add_edge(u, v, **attrs): adds the end nodes when they are missing
add_edge(G, u, v, attrs) ==
  LET G1 == IF u \in DOMAIN G.nodes THEN G ELSE add_node(G, u, EmptyDict)
      G2 == IF v \in DOMAIN G1.nodes THEN G1 ELSE add_node(G1, v, EmptyDict)
  IN [G2 EXCEPT !.edges = IF <<u, v>> \in DOMAIN G2.edges
                            THEN [G2.edges EXCEPT ![<<u, v>>] = attrs @@ G2.edges[<<u, v>>]]
                            ELSE (<<u, v>> :> attrs) @@ G2.edges]

\* DiGraph.remove_edge(u, v), for an edge of the graph
remove_edge(G, u, v) ==
  [G EXCEPT !.edges = [e \in (DOMAIN G.edges) \ {<<u, v>>} |-> G.edges[e]]]

\* DiGraph.remove_node(k), for a node of the graph: the node and its edges
remove_node(G, k) ==
  [G EXCEPT !.nodes = [n \in (DOMAIN G.nodes) \ {k} |-> G.nodes[n]],
            !.edges = [e \in {d \in DOMAIN G.edges : d[1] # k /\ d[2] # k} |->
                         G.edges[e]]]

in_edges(G, k) == {e \in DOMAIN G.edges : e[2] = k}

out_edges(G, k) == {e \in DOMAIN G.edges : e[1] = k}

\* PTTargetPoint(target_type, ia_op_exec_context=..., input_port_id=...)
PTTargetPoint(target_type, ia_op_exec_context, input_port_id) ==
  [target_type |-> target_type, ia_op_exec_context |-> ia_op_exec_context,
   input_port_id |-> input_port_id]

\* the attributes of an insertion point node (lines 168-171 and 183-186)
InsertionPointAttrs(insertion_point) ==
  [node_type |-> "INSERTION_POINT", insertion_point_data |-> insertion_point]

\* the attributes __init__ gives an operator node (lines 130-133)
OperatorAttrs(node) ==
  [regular_node_ref |-> node, node_type |-> "OPERATOR",
   associated_ip_node_keys |-> {}, op_meta |-> "None"]

\* operator_node[ASSOCIATED_IP_NODE_KEYS_NODE_ATTR].add(ip_node_key)
AssociateIP(G, operator_node_key, ip_node_key) ==
  [G EXCEPT !.nodes[operator_node_key].associated_ip_node_keys = @ \cup {ip_node_key}]

\* the loop over in_edges (lines 160-178); the iterations commute, so the
\* edges are taken in an arbitrary fixed order
RECURSIVE InsertPreHooks(_, _, _, _)
InsertPreHooks(G, operator_node_key, edges, ia_op_exec_context) ==
  IF edges = {} THEN G
  ELSE LET edge == CHOOSE e \in edges : TRUE
           port_id == G.edges[edge]["in_port_id"]
           from_node_key == edge[1]
           to_node_key == edge[2]
           ip_node_key == get_pre_hook_node_key(operator_node_key, port_id)
           pre_hook_insertion_point ==
             PTTargetPoint("OPERATOR_PRE_HOOK", ia_op_exec_context, <<port_id>>)
           G1 == add_node(G, ip_node_key, InsertionPointAttrs(pre_hook_insertion_point))
           G2 == remove_edge(G1, from_node_key, to_node_key)
           G3 == add_edge(G2, from_node_key, ip_node_key, EmptyDict)
           G4 == add_edge(G3, ip_node_key, operator_node_key, EmptyDict)
           G5 == AssociateIP(G4, operator_node_key, ip_node_key)
       IN InsertPreHooks(G5, operator_node_key, edges \ {edge}, ia_op_exec_context)

\* the loop over out_edges (lines 190-196)
RECURSIVE MoveOutEdges(_, _, _)
MoveOutEdges(G, ip_node_key, edges) ==
  IF edges = {} THEN G
  ELSE LET out_edge == CHOOSE e \in edges : TRUE
           original_edge_attrs == G.edges[out_edge]
           G1 == remove_edge(G, out_edge[1], out_edge[2])
           G2 == add_edge(G1, ip_node_key, out_edge[2], original_edge_attrs)
       IN MoveOutEdges(G2, ip_node_key, edges \ {out_edge})

MODEL_INPUT_OP_NAME == "nncf_model_input"

\* one iteration of the loop over node_keys_working_set (lines 151-204)
process_operator(G, operator_node_key) ==
  LET original_node == G.nodes[operator_node_key].regular_node_ref
      ia_op_exec_context == original_node.op_exec_context
      G1 == InsertPreHooks(G, operator_node_key, in_edges(G, operator_node_key),
                           ia_op_exec_context)
      post_hook_insertion_point ==
        PTTargetPoint("OPERATOR_POST_HOOK", ia_op_exec_context, <<>>)
      ip_node_key == get_post_hook_node_key(operator_node_key)
      G2 == add_node(G1, ip_node_key, InsertionPointAttrs(post_hook_insertion_point))
      G3 == MoveOutEdges(G2, ip_node_key, out_edges(G2, operator_node_key))
      G4 == add_edge(G3, operator_node_key, ip_node_key, EmptyDict)
      G5 == AssociateIP(G4, operator_node_key, ip_node_key)
  IN IF ia_op_exec_context.operator_name = MODEL_INPUT_OP_NAME
       THEN [G5 EXCEPT !.input_ips = Append(@, post_hook_insertion_point)]
       ELSE G5

\* lines 125-141: the operator nodes and the edges of the base graph
CopyOfBase(base) ==
  [nodes |-> [k \in DOMAIN base.nodes |-> OperatorAttrs(base.nodes[k])],
   edges |-> [e \in DOMAIN base.edges |-> PortAttrs(base.edges[e]["in_port_id"])],
   input_ips |-> <<>>]

\* ---- get_ip_graph_with_merged_hw_optimized_operations (lines 206-297) ----
MaxMatches == 2        \* matches search_all returns

\* only the first loop: breaking output edges
base_graph_match_has_breaking_output_edges(base, match) ==
  \E i \in 1..(Len(match) - 1) :
    \E succ_key \in {e[2] : e \in out_edges(base, match[i])} :
      succ_key \notin Range(match)

\* only the nodes that are neither the first nor the last of the match
base_graph_match_has_interior_breaking_edges(base, match) ==
  \E i \in 2..(Len(match) - 1) :
    \/ \E succ_key \in {e[2] : e \in out_edges(base, match[i])} :
         succ_key \notin Range(match)
    \/ \E pred_key \in {e[1] : e \in in_edges(base, match[i])} :
         pred_key \notin Range(match)

\* _base_graph_match_has_breaking_edges(match)
base_graph_match_has_breaking_edges(base, match) ==
  \/ \E i \in 1..(Len(match) - 1) :
       \E succ_key \in {e[2] : e \in out_edges(base, match[i])} :
         succ_key \notin Range(match)
  \/ \E i \in 2..Len(match) :
       \E pred_key \in {e[1] : e \in in_edges(base, match[i])} :
         pred_key \notin Range(match)

\* The objects the method works on are kept in a store [self, merged]; a
\* reference is the name of a field of the store.
deepcopy_alias(store, ref) == [ref |-> ref, store |-> store]

\* merged_ip_graph = deepcopy(self): a new object, equal to the one copied
deepcopy(store, ref) ==
  [ref |-> "merged", store |-> [store EXCEPT !.merged = store[ref]]]

RECURSIVE RemoveNodes(_, _)
RemoveNodes(G, keys) ==
  IF keys = {} THEN G
  ELSE LET k == CHOOSE x \in keys : TRUE IN RemoveNodes(remove_node(G, k), keys \ {k})

\* the loop `for node_key in match` (lines 276-289); m is the reference
\* merged_ip_graph.  It yields the store, merged_node_attrs and merged_node_key.
RECURSIVE MergeNodes(_, _, _, _, _, _)
MergeNodes(store, m, nodes, conserved_edges_list, merged_node_attrs, merged_node_key) ==
  IF nodes = <<>>
    THEN [store |-> store, attrs |-> merged_node_attrs, key |-> merged_node_key]
  ELSE LET node_key == Head(nodes)
           ip_node_keys == store.self.nodes[node_key].associated_ip_node_keys
           kept == {ip \in ip_node_keys :
                      \E edge_key \in conserved_edges_list :
                        ip = edge_key[1] \/ ip = edge_key[2]}
           G1 == RemoveNodes(store[m], ip_node_keys \ kept)
           G2 == remove_node(G1, node_key)
       IN MergeNodes([store EXCEPT ![m] = G2], m, Tail(nodes), conserved_edges_list,
                     [merged_node_attrs EXCEPT !.associated_ip_node_keys = @ \cup kept],
                     Key("OPERATOR", <<>>, merged_node_key.ops \o node_key.ops))

\* for ... in in_edge_copies_dict.items(): add_edge(in_edge_key[0], merged_node_key, ...)
RECURSIVE AddInEdges(_, _, _, _)
AddInEdges(G, merged_node_key, copies, keys) ==
  IF keys = {} THEN G
  ELSE LET in_edge_key == CHOOSE e \in keys : TRUE IN
       AddInEdges(add_edge(G, in_edge_key[1], merged_node_key, copies[in_edge_key]),
                  merged_node_key, copies, keys \ {in_edge_key})

\* no edge leaves the merged node
AddOutEdges_none(G, merged_node_key, copies, keys) == G

\* for ... in out_edge_copies_dict.items(): add_edge(merged_node_key, out_edge_key[1], ...)
RECURSIVE AddOutEdges(_, _, _, _)
AddOutEdges(G, merged_node_key, copies, keys) ==
  IF keys = {} THEN G
  ELSE LET out_edge_key == CHOOSE e \in keys : TRUE IN
       AddOutEdges(add_edge(G, merged_node_key, out_edge_key[2], copies[out_edge_key]),
                   merged_node_key, copies, keys \ {out_edge_key})

\* one iteration of the loop over the matches (lines 231-295)
merge_match(store, m, base, match) ==
  IF Len(match) = 1 THEN store
  ELSE IF base_graph_match_has_breaking_edges(base, match) THEN store
  ELSE LET self == store.self
           input_node_key == match[1]
           output_node_key == match[Len(match)]
           in_edge_keys == in_edges(self, input_node_key)
           out_edge_keys == out_edges(self, output_node_key)
           in_edge_copies_dict == [e \in in_edge_keys |-> self.edges[e]]
           out_edge_copies_dict == [e \in out_edge_keys |-> self.edges[e]]
           conserved_edges_list == out_edge_keys \cup in_edge_keys
           merged_node_attrs ==
             [self.nodes[input_node_key] EXCEPT !.associated_ip_node_keys = {}]
           r == MergeNodes(store, m, match, conserved_edges_list, merged_node_attrs,
                           Key("OPERATOR", <<>>, <<>>))
           G1 == add_node(r.store[m], r.key, r.attrs)
           G2 == AddInEdges(G1, r.key, in_edge_copies_dict, in_edge_keys)
           G3 == AddOutEdges(G2, r.key, out_edge_copies_dict, out_edge_keys)
       IN [r.store EXCEPT ![m] = G3]

RECURSIVE MergeMatches(_, _, _, _)
MergeMatches(store, m, base, matches) ==
  IF matches = <<>> THEN store
  ELSE MergeMatches(merge_match(store, m, base, Head(matches)), m, base, Tail(matches))

\* the method called on the graph G with the base graph `base`, when
\* search_all returns `matches`: the graph it returns and G as it leaves it
get_ip_graph_with_merged_hw_optimized_operations(G, base, matches) ==
  LET c == deepcopy([self |-> G, merged |-> EmptyDiGraph], "self")
      store == MergeMatches(c.store, c.ref, base, matches)
  IN [self |-> store.self, merged |-> store[c.ref]]

\* ---- the base graphs an InsertionPointGraph is built from ---------------
\* the attributes of a node of the base graph: its operator execution context
BaseNodeAttrs(id, operator_name) ==
  [op_exec_context |-> [operator_name |-> operator_name, call_order |-> id]]

\* the nodes without incoming edge
Sources(n, ed) == {i \in 1..n : \A e \in ed : e[2] # i}

\* the base graph with the operators 1..n, the edges ed, the input port ids
\* port[e] and the model inputs `inputs`
BaseGraph(n, ed, port, inputs) ==
  [nodes |-> [k \in {OperatorKey(i) : i \in 1..n} |->
                BaseNodeAttrs(k.ops[1], IF k.ops[1] \in inputs
                                          THEN MODEL_INPUT_OP_NAME ELSE "op")],
   edges |-> [e \in {<<OperatorKey(d[1]), OperatorKey(d[2])>> : d \in ed} |->
                PortAttrs(port[<<e[1].ops[1], e[2].ops[1]>>])],
   input_ips |-> <<>>]

\* the port of the edge (u, v) when the inputs of v are numbered in the
\* order of the ids of its predecessors
NumberedPorts(ed) ==
  [e \in ed |-> Cardinality({d \in ed : d[2] = e[2] /\ d[1] < e[1]})]

\* every base graph with the edges ed: any input port ids, sources that are
\* model inputs or not
BaseGraphsOn(n, ed, ports) ==
  {BaseGraph(n, ed, port, inputs) :
     port \in ports, inputs \in {{}, Sources(n, ed)}}

\* conv2d -> BN -> RELU -> cat with the side edge conv2d -> cat
SideEdges == {<<1, 2>>, <<2, 3>>, <<3, 4>>, <<1, 4>>}

\* linear -> add <- linear, add -> next
AddEdges == {<<1, 3>>, <<2, 3>>, <<3, 4>>}

BaseGraphs ==
  UNION {BaseGraphsOn(MaxOperators, ed, [ed -> 0..MaxPortId]) :
           ed \in SUBSET ForwardEdges([i \in 1..MaxOperators |-> i])}
  \cup BaseGraphsOn(3, {<<1, 3>>, <<2, 3>>}, [{<<1, 3>>, <<2, 3>>} -> 0..1])
  \cup BaseGraphsOn(4, ChainEdges(4), {NumberedPorts(ChainEdges(4))})
  \cup BaseGraphsOn(4, SideEdges, {NumberedPorts(SideEdges)})
  \cup BaseGraphsOn(4, AddEdges, {NumberedPorts(AddEdges)})

\* ---- InsertionPointGraph as a state machine -----------------------------
\* InsertionPointGraph.__init__ up to line 150: the operator nodes and the
\* edges are copied, the working set lists the node keys
InitIP ==
  /\ graph \in BaseGraphs
  /\ ip_graph = CopyOfBase(graph)
  /\ node_keys_working_set \in Orderings(DOMAIN graph.nodes)
  /\ op_i = 0
  /\ merged_ip_graph = EmptyDiGraph
  /\ pc = "ip"
  /\ last = [op |-> "InsertionPointGraph", args |-> <<>>, err |-> "none",
             order |-> <<>>, imps |-> <<>>]
  /\ clusters = EmptyDict
  /\ node_to_cluster = EmptyDict
  /\ seed_i = 0
  /\ walk_i = 0
  /\ NoAnalyzer
  /\ NoUnits

\* one iteration of the loop of line 151
ProcessOperator ==
  /\ pc = "ip"
  /\ op_i < Len(node_keys_working_set)
  /\ LET operator_node_key == node_keys_working_set[op_i + 1] IN
       /\ ip_graph' = process_operator(ip_graph, operator_node_key)
       /\ last' = Visit("process_operator", operator_node_key)
  /\ op_i' = op_i + 1
  /\ UNCHANGED <<graph, pc, merged_ip_graph, node_keys_working_set,
                 clustering_vars, analyzer_vars, unit_vars>>

\* search_all(self._base_nx_graph, pattern): a match is a path of the base
\* graph, the matches do not overlap
Paths(base) ==
  {s \in DistinctSeqs(DOMAIN base.nodes, Cardinality(DOMAIN base.nodes)) :
     /\ s # <<>>
     /\ \A i \in 1..(Len(s) - 1) : <<s[i], s[i + 1]>> \in DOMAIN base.edges}

MatchLists(base) ==
  {ms \in SeqsUpTo(Paths(base), MaxMatches) :
     \A i, j \in 1..Len(ms) : i # j => Range(ms[i]) \cap Range(ms[j]) = {}}

\* every operator of the working set has been processed
Built == pc = "ip" /\ op_i = Len(node_keys_working_set)

\* __init__ returns: its local variables are gone
InitReturns ==
  /\ Built
  /\ pc' = "built"
  /\ node_keys_working_set' = <<>>
  /\ op_i' = 0
  /\ last' = [op |-> "__init__", args |-> <<>>, err |-> "none", order |-> <<>>,
              imps |-> <<>>]
  /\ UNCHANGED <<graph, ip_graph, merged_ip_graph, clustering_vars, analyzer_vars, unit_vars>>

MergeOp == "get_ip_graph_with_merged_hw_optimized_operations"

\* a call of the method; a later call on the same graph is made with the
\* same patterns, for which search_all returns the same matches
GetMerged ==
  /\ pc = "built"
  /\ \E matches \in MatchLists(graph) :
       LET r == get_ip_graph_with_merged_hw_optimized_operations(ip_graph, graph, matches)
       IN /\ last.op = MergeOp => matches = last.args
          /\ ip_graph' = r.self
          /\ merged_ip_graph' = r.merged
          /\ last' = [op |-> MergeOp, args |-> matches, err |-> "none",
                      order |-> <<>>, imps |-> <<>>]
  /\ UNCHANGED <<graph, pc, op_i, node_keys_working_set, clustering_vars, analyzer_vars, unit_vars>>

NextIP ==
  \/ ProcessOperator
  \/ InitReturns
  \/ GetMerged

SpecIP == InitIP /\ [][NextIP]_vars

\* ---- claims about InsertionPointGraph (checked under SpecIP) ------------
PreHook(v, p) == Key("PRE HOOK", <<p>>, v.ops)

PostHook(v) == Key("POST HOOK", <<>>, v.ops)

\* the input port id of an edge of the base graph
PortOf(e) == graph.edges[e]["in_port_id"]

\* the hook nodes of the graph G that belong to the operator v
HooksOf(G, v) == {k \in DOMAIN G.nodes : k.kind # "OPERATOR" /\ k.ops = v.ops}

\* the pre-hooks the operator v is to have: one for each incoming port id
PreHooksFor(v) == {PreHook(v, PortOf(e)) : e \in in_edges(graph, v)}

\* C19: whatever the order in which the operators are processed, the built
\* graph has for each operator exactly one post-hook and one pre-hook per
\* distinct incoming port id; each base edge (u, v) with port p has become
\* the path u -> post-hook(u) -> pre-hook(p, v) -> v and there is no other
\* edge, so no edge joins two operators; the associated insertion points of
\* an operator are its own pre-hooks and its post-hook.
C19_Construction ==
  Built =>
    LET operators == DOMAIN graph.nodes IN
    /\ DOMAIN ip_graph.nodes =
         operators \cup UNION {PreHooksFor(v) \cup {PostHook(v)} : v \in operators}
    /\ \A v \in operators :
         /\ ip_graph.nodes[v].node_type = "OPERATOR"
         /\ HooksOf(ip_graph, v) = PreHooksFor(v) \cup {PostHook(v)}
         /\ ip_graph.nodes[v].associated_ip_node_keys = PreHooksFor(v) \cup {PostHook(v)}
         /\ \A k \in HooksOf(ip_graph, v) : ip_graph.nodes[k].node_type = "INSERTION_POINT"
    /\ DOMAIN ip_graph.edges =
         {<<v, PostHook(v)>> : v \in operators}
         \cup {<<PostHook(e[1]), PreHook(e[2], PortOf(e))>> : e \in DOMAIN graph.edges}
         \cup {<<PreHook(e[2], PortOf(e)), e[2]>> : e \in DOMAIN graph.edges}
    /\ \A e \in DOMAIN ip_graph.edges :
         ~(e[1].kind = "OPERATOR" /\ e[2].kind = "OPERATOR")

\* a graph was built in which an operator with inputs on two ports was
\* processed before one of its predecessors and after another
C19_Witness ==
  /\ Built
  /\ \E v \in DOMAIN graph.nodes :
       /\ Cardinality(PreHooksFor(v)) = 2
       /\ \E e, d \in in_edges(graph, v) :
            /\ get_position(node_keys_working_set, e[1])
                 < get_position(node_keys_working_set, v)
            /\ get_position(node_keys_working_set, v)
                 < get_position(node_keys_working_set, d[1])

\* C20: a call of get_ip_graph_with_merged_hw_optimized_operations leaves the
\* InsertionPointGraph (nodes, edges, attributes, associated insertion
\* points, input insertion points) and its base graph as they were, and a
\* repeated call with the same matches returns a graph equal to the one the
\* previous call returned.
C20_MergeLeavesSourceIntact ==
  [][last'.op = MergeOp =>
       /\ ip_graph' = ip_graph
       /\ graph' = graph
       /\ (last.op = MergeOp /\ last'.args = last.args) =>
            merged_ip_graph' = merged_ip_graph]_vars

\* a call returned a graph in which a match has been merged into one node
C20_Witness ==
  /\ last.op = MergeOp
  /\ merged_ip_graph # ip_graph
  /\ \E k \in DOMAIN merged_ip_graph.nodes : k.kind = "OPERATOR" /\ Len(k.ops) > 1
  /\ \E k \in DOMAIN ip_graph.nodes : k \notin DOMAIN merged_ip_graph.nodes

\* ---- claims about the merge transform (checked under SpecIP) -------------
\* the matches of the last call
Matches == IF last.op = MergeOp THEN Range(last.args) ELSE {}

\* the node u of the base graph is a successor (predecessor) of the node v
SuccOf(u, v) == <<v, u>> \in DOMAIN graph.edges

PredOf(u, v) == <<u, v>> \in DOMAIN graph.edges

\* some node of the match that is neither its first nor its last node has
\* an edge to or from a node outside the match
InteriorBreaking(match) ==
  \E i \in 2..(Len(match) - 1) :
    \E u \in (DOMAIN graph.nodes) \ Range(match) :
      SuccOf(u, match[i]) \/ PredOf(u, match[i])

\* the operator v, its hook nodes and their edges are in the returned graph
\* exactly as in the source graph
Intact(v) ==
  LET own == {v} \cup HooksOf(ip_graph, v)
      touches(e) == e[1] \in own \/ e[2] \in own
  IN /\ \A k \in own :
          /\ k \in DOMAIN merged_ip_graph.nodes
          /\ merged_ip_graph.nodes[k] = ip_graph.nodes[k]
     /\ HooksOf(merged_ip_graph, v) = HooksOf(ip_graph, v)
     /\ \A e \in DOMAIN ip_graph.edges :
          touches(e) => /\ e \in DOMAIN merged_ip_graph.edges
                        /\ merged_ip_graph.edges[e] = ip_graph.edges[e]
     /\ \A e \in DOMAIN merged_ip_graph.edges :
          touches(e) => e \in DOMAIN ip_graph.edges

\* C21: a match of length 1, and a match in which a node that is neither
\* first nor last has an edge to or from a node outside the match, changes
\* nothing: the matched operators, their hook nodes and their edges are in
\* the returned graph exactly as in the source graph.
C21_RejectedMatchIsNoOp ==
  \A match \in Matches :
    (Len(match) = 1 \/ InteriorBreaking(match)) =>
      \A v \in Range(match) : Intact(v)

\* a call was made with a match of three nodes or more whose interior node
\* has a neighbour outside the match, and with a match of length 1
C21_Witness ==
  /\ \E match \in Matches : Len(match) >= 3 /\ InteriorBreaking(match)
  /\ \E match \in Matches : Len(match) = 1

\* the match is one the transform merges: it has two nodes or more, no node
\* but the last has a successor outside it, no node but the first has a
\* predecessor outside it
Accepted(match) ==
  /\ Len(match) > 1
  /\ \A i \in 1..Len(match) : \A u \in (DOMAIN graph.nodes) \ Range(match) :
       /\ i < Len(match) => ~SuccOf(u, match[i])
       /\ i > 1 => ~PredOf(u, match[i])

\* the key of the node a match is merged into: the keys of its nodes, joined
MergedKey(match) ==
  Key("OPERATOR", <<>>, [i \in 1..Len(match) |-> match[i].ops[1]])

\* the operators that are in no accepted match of the last call
Unmatched ==
  {v \in DOMAIN graph.nodes :
     \A match \in Matches : Accepted(match) => v \notin Range(match)}

\* C22: for every accepted match the returned graph has exactly one merged
\* operator node in place of the matched operators; its associated insertion
\* points are the pre-hooks of the first matched node and the post-hook of
\* the last; the other hooks of the matched operators are gone; the kept
\* hooks are wired pre-hook(first) -> merged -> post-hook(last) with the
\* attributes of the edges they replace, the kept hooks keep their other
\* edges, and the operators of no accepted match, their hooks and their
\* edges are untouched.
C22_MergedNode ==
  /\ \A match \in Matches :
       Accepted(match) =>
         LET first == match[1]
             final == match[Len(match)]
             M == MergedKey(match)
             G == merged_ip_graph
             kept == PreHooksFor(first) \cup {PostHook(final)}
         IN /\ {k \in DOMAIN G.nodes :
                   k.kind = "OPERATOR" /\ Range(k.ops) \cap Range(M.ops) # {}} = {M}
            /\ G.nodes[M].node_type = "OPERATOR"
            /\ G.nodes[M].associated_ip_node_keys = kept
            /\ UNION {HooksOf(G, v) : v \in Range(match)} = kept
            /\ \A k \in kept : G.nodes[k] = ip_graph.nodes[k]
            /\ {e \in DOMAIN G.edges : e[1] = M \/ e[2] = M} =
                 {<<p, M>> : p \in PreHooksFor(first)} \cup {<<M, PostHook(final)>>}
            /\ \A p \in PreHooksFor(first) :
                 G.edges[<<p, M>>] = ip_graph.edges[<<p, first>>]
            /\ G.edges[<<M, PostHook(final)>>] = ip_graph.edges[<<final, PostHook(final)>>]
  /\ last.op = MergeOp =>
       /\ \A v \in Unmatched : Intact(v)
       /\ \A e \in DOMAIN ip_graph.edges :
            (e[1] \in DOMAIN merged_ip_graph.nodes /\ e[2] \in DOMAIN merged_ip_graph.nodes)
              => /\ e \in DOMAIN merged_ip_graph.edges
                 /\ merged_ip_graph.edges[e] = ip_graph.edges[e]

\* a chain of three operators whose first has an input was merged, beside an
\* operator of no accepted match
C22_Witness ==
  /\ \E match \in Matches :
       /\ Accepted(match)
       /\ Len(match) >= 3
       /\ PreHooksFor(match[1]) # {}
       /\ MergedKey(match) \in DOMAIN merged_ip_graph.nodes
  /\ Unmatched # {}

\* the returned graph has the merged node of the match and none of its operators
WasMerged(match) ==
  /\ MergedKey(match) \in DOMAIN merged_ip_graph.nodes
  /\ \A v \in Range(match) : v \notin DOMAIN merged_ip_graph.nodes

\* C23: a match of length > 1 is merged if and only if no matched node other
\* than the last has a successor outside the match and no matched node other
\* than the first has a predecessor outside the match; a match that is not
\* merged is skipped, also when the outside edge is an output of its first
\* node or an input of its last node and no interior node has one.
C23_MergedIffNoSideEdges ==
  \A match \in Matches :
    Len(match) > 1 =>
      /\ WasMerged(match) <=> Accepted(match)
      /\ ~Accepted(match) => \A v \in Range(match) : Intact(v)

\* a match of three nodes whose only outside edge is an output of its first
\* node was skipped
C23_Witness ==
  \E match \in Matches :
    /\ Len(match) >= 3
    /\ ~InteriorBreaking(match)
    /\ \E u \in (DOMAIN graph.nodes) \ Range(match) : SuccOf(u, match[1])
    /\ \A u \in (DOMAIN graph.nodes) \ Range(match) : ~PredOf(u, match[Len(match)])
    /\ ~WasMerged(match)

\* ---- further claims about cluster_special_ops (checked under SpecCSO) ---
\* C24: cluster_special_ops never raises, whatever the DAG, also when two
\* nodes of one merge set already share a cluster: no call of it fails and
\* no cluster that still has indexed nodes is unregistered (as a call of
\* merge_clusters with one cluster id for both arguments would do).
C24_NeverRaises ==
  /\ pc # "raised"
  /\ last.err = "none"
  /\ \A n \in DOMAIN node_to_cluster : node_to_cluster[n] \in DOMAIN clusters

\* every node of the list has a registered cluster of importance 0
AllImportancesZero(nodes) ==
  \A i \in 1..Len(nodes) :
    /\ nodes[i] \in DOMAIN node_to_cluster
    /\ node_to_cluster[nodes[i]] \in DOMAIN clusters
    /\ ImportanceOf(nodes[i]) = 0

\* C25: whenever cluster_special_ops calls merge_clusters_for_nodes with two
\* or more nodes, the clusters of the candidates do not all have importance
\* 0 when the call is made, so the running maximum is exceeded and a
\* max-importance node is designated.
C25_DesignatedNodeDetermined ==
  [][(last'.op = "merge_clusters_for_nodes" /\ Len(last'.args) >= 2)
       => ~AllImportancesZero(last'.args)]_vars

\* the node at position 0 of the topological order is special and has been
\* visited: its singleton cluster of importance 0 was a candidate of a call
\* with two nodes or more, which returned
C25_Witness ==
  /\ pc = "walk"
  /\ walk_i = 1
  /\ last.op = "merge_clusters_for_nodes"
  /\ last.err = "none"
  /\ Len(last.args) >= 2
  /\ topological_sort(graph)[1] \in Range(last.args)

\* the loop of lines 201-203 from the i-th special node on
RECURSIVE SeedFrom(_, _, _, _)
SeedFrom(g, cl, idx, i) ==
  IF i >= Len(all_special_nodes(g)) THEN Result("none", cl, idx, <<>>)
  ELSE LET node == all_special_nodes(g)[i + 1]
           cluster == NodesCluster(i, <<node>>,
                                   <<get_position(topological_sort(g), node)>>)
           r == add_cluster(cl, idx, cluster)
       IN IF r.err # "none" THEN r
          ELSE SeedFrom(g, r.clusters, r.node_to_cluster, i + 1)

\* the loop of lines 205-214 from the i-th node of the topological order on,
\* when find_next_nodes_not_of_types returns the outputs in one fixed order
RECURSIVE WalkFrom(_, _, _, _)
WalkFrom(g, cl, idx, i) ==
  IF i >= Len(topological_sort(g)) THEN Result("none", cl, idx, <<>>)
  ELSE LET node == topological_sort(g)[i + 1] IN
       IF SkipsNode(g, node) THEN WalkFrom(g, cl, idx, i + 1)
       ELSE LET nodes_to_merge == CHOOSE l \in MergeLists(g, node) : TRUE
                r == merge_clusters_for_nodes(cl, idx, nodes_to_merge)
            IN IF r.err # "none" THEN r
               ELSE WalkFrom(g, r.clusters, r.node_to_cluster, i + 1)

\* cluster_special_ops as a function of the graph
cluster_special_ops(g) ==
  LET seeded == SeedFrom(g, EmptyDict, EmptyDict, 0)
  IN WalkFrom(g, seeded.clusters, seeded.node_to_cluster, 0)

\* the enumeration index of the node n among the special nodes
SeedId(n) == get_position(all_special_nodes(graph), n)

\* the member of the cluster with the greatest topological position
GreatestMember(cluster) ==
  CHOOSE n \in Range(cluster.nodes) :
    \A m \in Range(cluster.nodes) :
      get_position(topological_sort(graph), m) <= get_position(topological_sort(graph), n)

\* C26: at every point of cluster_special_ops and in its result, the
\* importance of each registered cluster is the greatest topological
\* position among its members and its id is the seed id of the member at
\* that position; the ids of the clusters of the result are those the run
\* that takes the outputs in a fixed order returns, so the graph and the
\* topological order determine them.
C26_ImportanceAndId ==
  /\ \A k \in DOMAIN clusters :
       /\ clusters[k].nodes # <<>>
       /\ clusters[k].id = k
       /\ clusters[k].importance =
            get_position(topological_sort(graph), GreatestMember(clusters[k]))
       /\ k = SeedId(GreatestMember(clusters[k]))
  /\ (pc = "done" /\ cluster_special_ops(graph).err = "none") =>
       DOMAIN clusters = DOMAIN cluster_special_ops(graph).clusters

\* the result has a cluster of two nodes or more whose greatest-position
\* member has the smallest seed id of the cluster (the topological order is
\* the reverse of the order of the ids)
C26_Witness ==
  /\ pc = "done"
  /\ \E k \in DOMAIN clusters :
       /\ Len(clusters[k].nodes) >= 2
       /\ \A n \in Range(clusters[k].nodes) : k <= SeedId(n)
       /\ \E n \in Range(clusters[k].nodes) : k < SeedId(n)

\* ---- NodesCluster as a state machine (model_analysis.py, lines 23-39) ---
MaxMembers == 3        \* length of the node list of the NodesCluster object

\* NodesCluster(cluster_id, nodes, nodes_orders); max() needs an order
InitNC ==
  /\ \E cluster_id \in ClusterIds, nodes \in SeqsUpTo(NodeIds, MaxClusterLen),
        nodes_orders \in SeqsUpTo(0..MaxImportance, MaxListLen) \ {<<>>} :
       nodes_cluster = NodesCluster(cluster_id, nodes, nodes_orders)
  /\ last = [op |-> "NodesCluster", args |-> <<>>, err |-> "none", order |-> <<>>,
             imps |-> <<>>]
  /\ pc = "cluster"
  /\ graph = NoGraph
  /\ clusters = EmptyDict
  /\ node_to_cluster = EmptyDict
  /\ seed_i = 0
  /\ walk_i = 0
  /\ NoAnalyzer
  /\ NoIPGraph
  /\ NoSwitcher
  /\ NoTransformer

\* a call on the NodesCluster object; order and imps keep the node list and
\* the importance the object had before the call
CallOnCluster(op, args, after) ==
  /\ pc = "cluster"
  /\ nodes_cluster' = after
  /\ last' = [op |-> op, args |-> args, err |-> "none",
              order |-> nodes_cluster.nodes, imps |-> <<nodes_cluster.importance>>]
  /\ UNCHANGED <<graph, pc, clustering_vars, analyzer_vars, ip_vars, switcher_vars,
                 transformer_vars>>

CleanCluster == CallOnCluster("clean_cluster", <<>>, clean_cluster(nodes_cluster))

AddNodes ==
  \E nodes \in SeqsUpTo(NodeIds, MaxClusterLen), importance \in 0..MaxImportance :
    /\ Len(nodes_cluster.nodes) + Len(nodes) <= MaxMembers
    /\ CallOnCluster("add_nodes", <<nodes, importance>>,
                     add_nodes(nodes_cluster, nodes, importance))

NextNC ==
  \/ CleanCluster
  \/ AddNodes

SpecNC == InitNC /\ [][NextNC]_vars

\* ---- claims about NodesCluster (checked under SpecNC) -------------------
\* the list s is the beginning of the list t
IsPrefix(s, t) == Len(s) <= Len(t) /\ \A i \in 1..Len(s) : t[i] = s[i]

\* C27: over any sequence of the public operations of a NodesCluster, the
\* member list never loses a node and the importance never decreases; the
\* only operation that changes the object is add_nodes.
C27_NeverShrinks ==
  [][/\ IsPrefix(nodes_cluster.nodes, nodes_cluster'.nodes)
     /\ nodes_cluster'.importance >= nodes_cluster.importance
     /\ nodes_cluster' # nodes_cluster => last'.op = "add_nodes"]_vars

\* C27 as the code has it: add_nodes extends the member list by the given
\* nodes and sets the importance to the maximum of the current and the
\* incoming one; clean_cluster empties the list and sets the importance to
\* 0; the id never changes, and no other operation changes the object.
C27_ShrinksOnlyByClean ==
  [][/\ nodes_cluster'.id = nodes_cluster.id
     /\ last'.op = "add_nodes" =>
          /\ nodes_cluster'.nodes = nodes_cluster.nodes \o last'.args[1]
          /\ nodes_cluster'.importance =
               (IF last'.args[2] > nodes_cluster.importance
                  THEN last'.args[2] ELSE nodes_cluster.importance)
     /\ last'.op = "clean_cluster" =>
          /\ nodes_cluster'.nodes = <<>>
          /\ nodes_cluster'.importance = 0
     /\ last'.op \notin {"add_nodes", "clean_cluster"} =>
          nodes_cluster' = nodes_cluster]_vars

\* clean_cluster was called on a cluster with members and a positive
\* importance, and left it empty
C27_Witness ==
  /\ last.op = "clean_cluster"
  /\ last.order # <<>>
  /\ last.imps[1] > 0
  /\ nodes_cluster.nodes = <<>>
  /\ nodes_cluster.importance = 0

\* ---- further claims about InsertionPointGraph (checked under SpecIP) ----
\* C28: in a constructed InsertionPointGraph every edge that enters an
\* operator node carries the input port id of the base-graph edge it
\* replaces, whichever of the two operators was processed first.
C28_EdgesIntoOperatorsCarryPort ==
  (Built \/ pc = "built") =>
    \A e \in DOMAIN ip_graph.edges :
      e[2].kind = "OPERATOR" =>
        /\ "in_port_id" \in DOMAIN ip_graph.edges[e]
        /\ \E b \in in_edges(graph, e[2]) :
             ip_graph.edges[e]["in_port_id"] = PortOf(b)

\* ---- QuantizersSwitcher (quantization/layers.py, lines 214-236) ---------
MaxQuantizers == 3     \* quantizers of the QuantizersSwitcher
MaxSwitcherCalls == 4  \* calls made on the QuantizersSwitcher

\* the list _quantizers: the modules 1..MaxQuantizers
Quantizers == 1..MaxQuantizers

\* no quantizer is seen as enabled
is_enabled_quantization_never(en, module) == FALSE

\* BaseQuantizer.is_enabled_quantization: self.enabled[0] == 1
is_enabled_quantization(en, module) == en[module] = 1

\* BaseQuantizer.enable_quantization: self.enabled[0] = 1
enable_quantization(en, module) == [en EXCEPT ![module] = 1]

\* BaseQuantizer.disable_quantization: self.enabled[0] = 0
disable_quantization(en, module) == [en EXCEPT ![module] = 0]

\* the loop of disable_quantizers from the i-th module on (lines 223-227)
RECURSIVE DisableFrom(_, _, _, _)
DisableFrom(en, od, oe, i) ==
  IF i > MaxQuantizers THEN [enabled |-> en, originally_disabled |-> od]
  ELSE LET od1 == IF ~is_enabled_quantization(en, i) THEN Append(od, i) ELSE od
           en1 == IF i \notin Range(oe) THEN disable_quantization(en, i) ELSE en
       IN DisableFrom(en1, od1, oe, i + 1)

\* the loop of enable_quantizers from the i-th module on (lines 231-235)
RECURSIVE EnableFrom(_, _, _, _)
EnableFrom(en, od, oe, i) ==
  IF i > MaxQuantizers THEN [enabled |-> en, originally_enabled |-> oe]
  ELSE LET oe1 == IF is_enabled_quantization(en, i) THEN Append(oe, i) ELSE oe
           en1 == IF i \notin Range(od) THEN enable_quantization(en, i) ELSE en
       IN EnableFrom(en1, od, oe1, i + 1)

\* QuantizersSwitcher(quantizers), for quantizers with any flags
InitQS ==
  /\ enabled \in [Quantizers -> {0, 1}]
  /\ originally_disabled = <<>>
  /\ originally_enabled = <<>>
  /\ enabled_before = enabled
  /\ switcher_calls = 0
  /\ last = [op |-> "QuantizersSwitcher", args |-> <<>>, err |-> "none",
             order |-> <<>>, imps |-> <<>>]
  /\ pc = "switcher"
  /\ graph = NoGraph
  /\ clusters = EmptyDict
  /\ node_to_cluster = EmptyDict
  /\ seed_i = 0
  /\ walk_i = 0
  /\ NoAnalyzer
  /\ NoIPGraph
  /\ NoCluster
  /\ NoTransformer

\* what every call on the switcher does besides its own effect; args keeps
\* the name of the call before it and order the list `saved` as the call
\* found it
SwitcherCall(op, saved) ==
  /\ pc = "switcher"
  /\ switcher_calls < MaxSwitcherCalls
  /\ switcher_calls' = switcher_calls + 1
  /\ enabled_before' = enabled
  /\ last' = [op |-> op, args |-> <<last.op>>, err |-> "none", order |-> saved,
              imps |-> <<>>]
  /\ UNCHANGED <<graph, pc, clustering_vars, analyzer_vars, ip_vars, nodes_cluster,
                 transformer_vars>>

DisableQuantizers ==
  /\ SwitcherCall("disable_quantizers", originally_enabled)
  /\ LET r == DisableFrom(enabled, originally_disabled, originally_enabled, 1) IN
       /\ enabled' = r.enabled
       /\ originally_disabled' = r.originally_disabled
       /\ originally_enabled' = <<>>

EnableQuantizers ==
  /\ SwitcherCall("enable_quantizers", originally_disabled)
  /\ LET r == EnableFrom(enabled, originally_disabled, originally_enabled, 1) IN
       /\ enabled' = r.enabled
       /\ originally_enabled' = r.originally_enabled
       /\ originally_disabled' = <<>>

NextQS ==
  \/ DisableQuantizers
  \/ EnableQuantizers

SpecQS == InitQS /\ [][NextQS]_vars

\* ---- claims about QuantizersSwitcher (checked under SpecQS) -------------
\* the step is the second call of a pair `first` then `second`
PairEnds(first, second) == last.op = first /\ last'.op = second

AllFlags(v) == \A q \in DOMAIN enabled : enabled[q] = v

\* C29: for any initial flags and after any earlier calls,
\* disable_quantizers() immediately followed by enable_quantizers() returns
\* the flag of every quantizer to its value from before disable_quantizers()
\* and all quantizers are disabled between the two calls; likewise
\* enable_quantizers() followed by disable_quantizers(), with all
\* quantizers enabled between the two calls.
C29_SwitchRoundTrip ==
  [][/\ PairEnds("disable_quantizers", "enable_quantizers") =>
          (enabled' = enabled_before /\ AllFlags(0))
     /\ PairEnds("enable_quantizers", "disable_quantizers") =>
          (enabled' = enabled_before /\ AllFlags(1))]_vars

\* C29 as the code has it: after any earlier calls the second call of such
\* a pair returns every flag to its value from before the first call; the
\* quantizers are all disabled (all enabled) between the two calls when the
\* first call found the list the call before it saved empty, as on a new
\* switcher or after a complete pair; a quantizer of that list keeps its
\* flag instead.
C29_SwitchRestores ==
  [][/\ PairEnds("disable_quantizers", "enable_quantizers") =>
          /\ enabled' = enabled_before
          /\ last.order = <<>> => AllFlags(0)
          /\ \A q \in DOMAIN enabled :
               enabled[q] = (IF q \in Range(last.order) THEN enabled_before[q] ELSE 0)
     /\ PairEnds("enable_quantizers", "disable_quantizers") =>
          /\ enabled' = enabled_before
          /\ last.order = <<>> => AllFlags(1)
          /\ \A q \in DOMAIN enabled :
               enabled[q] = (IF q \in Range(last.order) THEN enabled_before[q] ELSE 1)]_vars

\* after earlier calls, disable_quantizers() then enable_quantizers() were
\* called on quantizers of which some were enabled and some disabled: all
\* were disabled between the two calls and the flags are back
C29_Witness ==
  /\ last.op = "enable_quantizers"
  /\ last.args = <<"disable_quantizers">>
  /\ switcher_calls >= 3
  /\ \A q \in DOMAIN enabled_before : enabled_before[q] = 0
  /\ \E q \in DOMAIN enabled : enabled[q] = 1
  /\ \E q \in DOMAIN enabled : enabled[q] = 0

\* ---- PTModelTransformer.transform (nncf_network.py, lines 349-379, 800-818)
MaxCommands == 2       \* commands of a transformation layout of any kind
MaxPriority == 1       \* priorities 0..MaxPriority of the commands

\* PTInsertionPoint.TARGET_TYPE_VS_PT_INSERTION_TYPE_DICT
TARGET_TYPE_VS_PT_INSERTION_TYPE_DICT ==
  [t \in {"PRE_LAYER_OPERATION", "POST_LAYER_OPERATION", "OPERATION_WITH_WEIGHTS",
          "OPERATOR_PRE_HOOK", "OPERATOR_POST_HOOK"} |->
     CASE t = "PRE_LAYER_OPERATION" -> "NNCF_MODULE_PRE_OP"
       [] t = "POST_LAYER_OPERATION" -> "NNCF_MODULE_POST_OP"
       [] t = "OPERATION_WITH_WEIGHTS" -> "NNCF_MODULE_PRE_OP"
       [] t = "OPERATOR_PRE_HOOK" -> "OPERATOR_PRE_HOOK"
       [] t = "OPERATOR_POST_HOOK" -> "OPERATOR_POST_HOOK"]

\* a target point of a command: a PTTargetPoint with its module scope
TargetPoint(target_type, ia_op_exec_context, module_scope, input_port_id) ==
  [target_type |-> target_type, ia_op_exec_context |-> ia_op_exec_context,
   module_scope |-> module_scope, input_port_id |-> input_port_id]

\* the target points of the commands: operations of the module m1, hooks of
\* the operator c1, and a point of a target type PyTorch does not support
TargetPoints ==
  {TargetPoint(t, "None", "m1", <<>>) :
     t \in {"PRE_LAYER_OPERATION", "POST_LAYER_OPERATION", "OPERATION_WITH_WEIGHTS",
            "LAYER"}}
  \cup {TargetPoint("OPERATOR_PRE_HOOK", "c1", "None", <<port>>) : port \in 0..MaxPortId}
  \cup {TargetPoint("OPERATOR_POST_HOOK", "c1", "None", <<>>)}

\* PTInsertionPoint(target_point), for a supported target type; two
\* insertion points are equal when their four fields are (__eq__)
PTInsertionPoint(target_point) ==
  [insertion_type |-> TARGET_TYPE_VS_PT_INSERTION_TYPE_DICT[target_point.target_type],
   ia_op_exec_context |-> target_point.ia_op_exec_context,
   module_scope |-> target_point.module_scope,
   input_port_id |-> target_point.input_port_id]

\* the function of the i-th registered command, and its wrapper
Fn(i) == [wrapper |-> "none", fn |-> i]

UpdateWeight(fn) == [wrapper |-> "UpdateWeight", fn |-> fn.fn]

\* PTInsertionCommand(target_point, fn, priority)
PTInsertionCommand(target_point, fn, priority) ==
  [target_point |-> target_point, fn |-> fn, priority |-> priority]

\* the list is left in the order of registration
sorted_by_priority_not(l) == l

\* sorted(fn_list_with_priority, key=lambda x: x[1]): a stable sort, by
\* insertion of each element after the elements that are not greater
RECURSIVE sorted_by_priority(_)
sorted_by_priority(l) ==
  IF l = <<>> THEN <<>>
  ELSE LET rest == sorted_by_priority(SubSeq(l, 1, Len(l) - 1))
           x == l[Len(l)]
           n == Cardinality({i \in 1..Len(rest) : rest[i][2] <= x[2]})
       IN SubSeq(rest, 1, n) \o <<x>> \o SubSeq(rest, n + 1, Len(rest))

\* the first loop of transform (lines 803-813) from the i-th command on;
\* groups is the dict fns_grouped_by_points in the order of its keys
RECURSIVE GroupCommands(_, _, _)
GroupCommands(commands, groups, i) ==
  IF i > Len(commands) THEN [err |-> "none", groups |-> groups]
  ELSE LET transformation_command == commands[i]
           target_point == transformation_command.target_point
       IN IF target_point.target_type \notin DOMAIN TARGET_TYPE_VS_PT_INSERTION_TYPE_DICT
            THEN [err |-> "RuntimeError", groups |-> groups]
          ELSE LET pt_ip == PTInsertionPoint(target_point)
                   fn == IF target_point.target_type = "OPERATION_WITH_WEIGHTS"
                           THEN UpdateWeight(transformation_command.fn)
                           ELSE transformation_command.fn
                   tup == <<fn, transformation_command.priority>>
                   known == {k \in 1..Len(groups) : groups[k].point = pt_ip}
               IN IF known = {}
                    THEN GroupCommands(commands,
                                       Append(groups, [point |-> pt_ip, fns |-> <<tup>>]), i + 1)
                    ELSE GroupCommands(commands,
                                       [k \in 1..Len(groups) |->
                                          IF k \in known
                                            THEN [groups[k] EXCEPT !.fns = Append(@, tup)]
                                            ELSE groups[k]],
                                       i + 1)

\* the second loop (lines 815-817): the calls of insert_at_point
InsertCalls(groups) ==
  [k \in 1..Len(groups) |->
     LET fn_list_with_priority == sorted_by_priority(groups[k].fns)
     IN [point |-> groups[k].point,
         fn_list |-> [j \in 1..Len(fn_list_with_priority) |-> fn_list_with_priority[j][1]]]]

\* transform(): the calls it makes on the model, or the error it raises
transform(commands) ==
  LET g == GroupCommands(commands, <<>>, 1)
  IN IF g.err # "none" THEN [err |-> g.err, calls |-> <<>>]
     ELSE [err |-> "none", calls |-> InsertCalls(g.groups)]

\* the lists of commands: the i-th command carries the i-th function
CommandLists(points, n) ==
  UNION {{[i \in 1..k |-> PTInsertionCommand(tp[i], Fn(i), pr[i])] :
            tp \in [1..k -> points], pr \in [1..k -> 0..MaxPriority]} : k \in 0..n}

\* PTModelTransformer(model, transformation_layout): any commands, or one
\* command more when all target the weights or the pre-operations of m1
InitTR ==
  /\ transformations \in
       CommandLists(TargetPoints, MaxCommands)
       \cup CommandLists({TargetPoint("OPERATION_WITH_WEIGHTS", "None", "m1", <<>>),
                          TargetPoint("PRE_LAYER_OPERATION", "None", "m1", <<>>)},
                         MaxCommands + 1)
  /\ inserted = <<>>
  /\ pc = "transformer"
  /\ last = [op |-> "PTModelTransformer", args |-> <<>>, err |-> "none",
             order |-> <<>>, imps |-> <<>>]
  /\ graph = NoGraph
  /\ clusters = EmptyDict
  /\ node_to_cluster = EmptyDict
  /\ seed_i = 0
  /\ walk_i = 0
  /\ NoAnalyzer
  /\ NoIPGraph
  /\ NoCluster
  /\ NoSwitcher

Transform ==
  /\ pc = "transformer"
  /\ LET r == transform(transformations) IN
       /\ inserted' = inserted \o r.calls
       /\ pc' = IF r.err = "none" THEN "transformed" ELSE "raised"
       /\ last' = [op |-> "transform", args |-> <<>>, err |-> r.err, order |-> <<>>,
                   imps |-> <<>>]
  /\ UNCHANGED <<transformations, graph, clustering_vars, analyzer_vars, ip_vars,
                 nodes_cluster, switcher_vars>>

NextTR == Transform

SpecTR == InitTR /\ [][NextTR]_vars

\* the insertion points of the commands, and the commands of a point
CommandPoints ==
  {PTInsertionPoint(transformations[i].target_point) : i \in DOMAIN transformations}

CommandsAt(point) ==
  {i \in DOMAIN transformations : PTInsertionPoint(transformations[i].target_point) = point}

\* the commands of the point that go before the i-th: those of lower
\* priority, and those of the same priority registered earlier
Before(point, i) ==
  {j \in CommandsAt(point) :
     \/ transformations[j].priority < transformations[i].priority
     \/ transformations[j].priority = transformations[i].priority /\ j < i}

\* the function passed for the i-th command: its own, behind UpdateWeight
\* when the command targets the weights
PassedFn(i) ==
  [wrapper |-> IF transformations[i].target_point.target_type = "OPERATION_WITH_WEIGHTS"
                 THEN "UpdateWeight" ELSE "none",
   fn |-> transformations[i].fn.fn]

ExpectedFns(point) ==
  [k \in 1..Cardinality(CommandsAt(point)) |->
     PassedFn(CHOOSE i \in CommandsAt(point) : Cardinality(Before(point, i)) = k - 1)]

\* C30: a transform that returns has called insert_at_point exactly once
\* for each distinct insertion point among its commands, and on no other
\* point; each call passes the functions of exactly the commands of its
\* point, by ascending priority, equal priorities in the order of
\* registration.
C30_OneCallPerPoint ==
  pc = "transformed" =>
    /\ \A point \in CommandPoints :
         Cardinality({k \in DOMAIN inserted : inserted[k].point = point}) = 1
    /\ \A k \in DOMAIN inserted :
         /\ inserted[k].point \in CommandPoints
         /\ inserted[k].fn_list = ExpectedFns(inserted[k].point)

\* a returned transform of three commands on one point, the first of a
\* higher priority than the two others, which are equal, next to none
C30_Witness ==
  /\ pc = "transformed"
  /\ Len(inserted) = 1
  /\ \E i, j, k \in DOMAIN transformations :
       /\ i < j /\ j < k
       /\ transformations[i].priority > transformations[j].priority
       /\ transformations[j].priority = transformations[k].priority
       /\ inserted[1].fn_list[1].fn = j
       /\ inserted[1].fn_list[2].fn = k
       /\ inserted[1].fn_list[3].fn = i

====
